---- MODULE Spec2Model ----
(***************************************************************************)
(* Model of the ClaudeCron scheduling and subagent execution core          *)
(* (cron-mcp-server/wrapper/cron_mcp).                                     *)
(*                                                                         *)
(* Part 1: CronScheduler (scheduler.py) together with the part of          *)
(*         execute_task (server.py) that writes the history table.         *)
(* Part 2: SubagentExecutorMCP.execute (subagent_mcp.py), Mode A.          *)
(*                                                                         *)
(* Time is counted in seconds.  A cron schedule is modelled by its period  *)
(* in minutes P (the five-field expression that matches every P-th minute, *)
(* "* * * * *" for P = 1 and "*/2 * * * *" for P = 2).                     *)
(***************************************************************************)
EXTENDS Integers, Sequences, FiniteSets, TLC

(***************************************************************************)
(* Bounds of the model                                                     *)
(***************************************************************************)
NumTasks == 3

MaxTime == 180

Step == 30

MaxJobs == 4

MaxManual == 1

(***************************************************************************)
(* Program constants                                                       *)
(***************************************************************************)
check_interval == 60

Minute == 60

(* max_concurrent is a constructor parameter of CronScheduler; the model  *)
(* constructs the scheduler with a small capacity so that the cap is hit. *)
max_concurrent == 2

TaskIds == 1..(NumTasks + 2)

NoSchedule == 0

NoRun == -1

VARIABLES
  now,             \* wall clock, seconds
  nextTick,        \* instant at which the sleep of _scheduler_loop ends
  tasks,           \* tasks table: id -> [enabled, schedule]
  history,         \* history table: sequence of [task_id, started_at, status]
  jobs,            \* executions: [task_id, src, slot, pc, hid]
  _running_tasks,  \* CronScheduler._running_tasks
  _semaphore,      \* value of CronScheduler._semaphore
  lastTick,        \* instant of the latest _check_and_run_tasks, NoRun if none
  _running,        \* CronScheduler._running (the loop task is alive)
  lastPass,        \* what the latest pass of _scheduler_loop did
  frames,          \* active SubagentExecutorMCP.execute calls of one call chain
  _subagent_depth, \* the context variable of that call chain
  lastResult,      \* what the execute call that has just returned gave its caller
  chainPeak,       \* deepest nesting level the current call chain has tried to enter
  contexts,        \* value of _subagent_depth in each contextvars context
  chains,          \* per asyncio task: the `depth` locals of its active execute calls
  db_tasks,        \* tasks table as execute_task reads it: id -> row
  db_history,      \* history table as execute_task writes it: sequence of rows
  calls,           \* the execute_task calls made so far
  sessions,        \* MCPClientHub.sessions, in insertion order
  _tool_to_server, \* MCPClientHub._tool_to_server: tool name -> server URL
  hub,             \* the Hub operation in progress and its position
  hubDone,         \* what the Hub operation that ended last did
  exclude_list,    \* the list object a caller passes to to_anthropic_format
  open_clients,    \* the httpx clients of _connect_to_server that nothing has closed
  mcp_servers_table, \* mcp_servers table of the registry: rows in rowid order
  _registry,       \* mcp_registry._registry is set
  _initialized,    \* MCPRegistry._initialized
  restarts,        \* number of times the server process was started again
  tasks_table,     \* tasks table as the tool operations write and list it
  tasks_cache,     \* server.tasks_cache: the cached task dicts
  toolDone         \* what the tool or registry operation that ended last did

schedVars == <<now, nextTick, tasks, history, jobs, _running_tasks, _semaphore, lastTick,
              _running, lastPass>>

agentVars == <<frames, _subagent_depth, lastResult, chainPeak>>

ctxVars == <<contexts, chains>>

taskVars == <<db_tasks, db_history, calls>>

hubVars == <<sessions, _tool_to_server, hub, hubDone, exclude_list, open_clients>>

toolVars == <<mcp_servers_table, _registry, _initialized, restarts, tasks_table, tasks_cache,
              toolDone>>

otherThanSched == <<agentVars, taskVars, hubVars, toolVars, ctxVars>>

otherThanAgent == <<schedVars, taskVars, hubVars, toolVars, ctxVars>>

otherThanTask == <<schedVars, agentVars, hubVars, toolVars, ctxVars>>

otherThanHub == <<schedVars, agentVars, taskVars, toolVars, ctxVars>>

otherThanTool == <<schedVars, agentVars, taskVars, hubVars, ctxVars>>

vars == <<schedVars, agentVars, taskVars, hubVars, toolVars, ctxVars>>

(***************************************************************************)
(* Helpers                                                                 *)
(***************************************************************************)
SetMax(S) == CHOOSE x \in S : \A y \in S : y <= x

SetMin(S) == CHOOSE x \in S : \A y \in S : x <= y

Min2(a, b) == IF a <= b THEN a ELSE b

(* croniter(schedule, base).get_next(): earliest matching instant strictly *)
(* after base.                                                             *)
CronNext(schedule, base) == ((base \div (schedule * Minute)) + 1) * (schedule * Minute)

(* SELECT started_at FROM history WHERE task_id = ? ORDER BY started_at DESC LIMIT 1 *)
_get_last_run(task_id) ==
  LET S == {history[i].started_at : i \in {j \in DOMAIN history : history[j].task_id = task_id}}
  IN IF S = {} THEN NoRun ELSE SetMax(S)

NextRun(task_id, t) ==
  LET
      BaseTime(task_id0, t1) ==
        LET
            (* now.replace(second=0, microsecond=0) *)
            TruncMinute(t0) == t0 - (t0 % Minute)
        IN
          LET last_run == _get_last_run(task_id0)
          IN IF last_run # NoRun THEN last_run ELSE TruncMinute(t1)
  IN
    CronNext(tasks[task_id].schedule, BaseTime(task_id, t))

(* the body of the try block raises: here the read of the last run fails *)
ShouldRunRaises(task_id, failing) == task_id \in failing

(* tasks selected by the tick: enabled = 1 AND schedule IS NOT NULL *)
SelectedTasks == {t \in TaskIds : tasks[t].enabled /\ tasks[t].schedule # NoSchedule}

EscapesUncaught(task_id, failing) == ShouldRunRaises(task_id, failing)

(* an exception leaves _should_run and ends the for loop of the tick:     *)
(* never, the except clause of lines 144-146 returns False                *)
Escapes(task_id, failing) == FALSE

Waiting == {i \in DOMAIN jobs : jobs[i].pc = "waiting"}

Running == {i \in DOMAIN jobs : jobs[i].pc = "running"}

SchedRunning == {i \in Running : jobs[i].src = "sched"}

CanAcquireNoPermit(i) == i = SetMin(Waiting)

(* asyncio.Semaphore: a permit is free and the job is the first waiter *)
CanAcquire(i) == _semaphore > 0 /\ i = SetMin(Waiting)

(***************************************************************************)
(* Init: the scheduler has just been constructed and started; the tasks    *)
(* and history tables hold what earlier runs of the process persisted.     *)
(***************************************************************************)
TaskRow(id) ==
  IF id = NumTasks + 1 THEN [enabled |-> FALSE, schedule |-> 1]
  ELSE IF id = NumTasks + 2 THEN [enabled |-> TRUE, schedule |-> NoSchedule]
  ELSE [enabled |-> TRUE, schedule |-> IF id = 1 THEN 2 ELSE 1]

RECURSIVE PastHistory(_)
PastHistory(ids) ==
  IF ids = {} THEN <<>>
  ELSE LET id == SetMin(ids)
       IN <<[task_id |-> id, started_at |-> 0, status |-> "success"]>>
          \o PastHistory(ids \ {id})

NoPass == [at |-> NoRun, failed |-> FALSE, prev_failed |-> FALSE, raised |-> {},
           due |-> {}, dispatched |-> {}]

InitScheduler ==
  LET
      (* server.py, lines 102-115 *)
      (* the sets of tasks that already ran before the process started *)
      PersistedRuns == {{}, {1}, 1..NumTasks, TaskIds}
  IN
    /\ now \in {0, Step}
    /\ nextTick = now
    /\ tasks = [id \in TaskIds |-> TaskRow(id)]
    /\ \E ids \in PersistedRuns : history = PastHistory(ids)
    /\ jobs = <<>>
    /\ _running_tasks = {}
    /\ _semaphore = max_concurrent
    /\ lastTick = NoRun
    /\ _running = TRUE
    /\ lastPass = NoPass


(***************************************************************************)
(* Actions                                                                 *)
(***************************************************************************)
(* One pass of _scheduler_loop: _check_and_run_tasks, then sleep. *)
Tick(failing) ==
  LET
      RECURSIVE Dispatch(_, _, _)
      Dispatch(js, due, t) ==
        IF due = {} THEN js
        ELSE LET id == SetMin(due)
             IN Dispatch(Append(js, [task_id |-> id, src |-> "sched",
                                     slot |-> NextRun(id, t), pc |-> "waiting", hid |-> 0]),
                         due \ {id}, t)
      (* the due test proper, lines 118-142 *)
      IsDue(task_id, t) ==
        LET last_run == _get_last_run(task_id)
            next_run == NextRun(task_id, t)
        IN next_run <= t /\ (last_run = NoRun \/ next_run > last_run)
      DueTasks(t, failing1) ==
        LET
            (* the tasks the for loop of the tick reaches, in the order of the rows *)
            Evaluated(failing0) ==
              {id \in SelectedTasks : ~ \E e \in SelectedTasks :
                                           e <= id /\ e \notin _running_tasks /\ Escapes(e, failing0)}
            (* _should_run: any exception of the body is logged and answered by False *)
            _should_run(task_id, t0, failing0) ==
              IF tasks[task_id].schedule = NoSchedule
              THEN FALSE
              ELSE IF ShouldRunRaises(task_id, failing0) THEN FALSE ELSE IsDue(task_id, t0)
        IN
          {id \in Evaluated(failing1) : id \notin _running_tasks /\ _should_run(id, t, failing1)}
  IN
    /\ _running
    /\ now >= nextTick
    /\ Len(jobs) + Cardinality(DueTasks(now, failing)) <= MaxJobs
    /\ jobs' = Dispatch(jobs, DueTasks(now, failing), now)
    /\ nextTick' = now + check_interval
    /\ lastTick' = now
    /\ lastPass' = [at |-> now, failed |-> FALSE, prev_failed |-> lastPass.failed,
                    raised |-> failing \cap SelectedTasks,
                    due |-> {id \in SelectedTasks \ failing :
                               id \notin _running_tasks /\ IsDue(id, now)},
                    dispatched |-> DueTasks(now, failing)]
    /\ UNCHANGED <<now, tasks, history, _running_tasks, _semaphore, _running>>
    /\ UNCHANGED otherThanSched

(* One pass of _scheduler_loop in which _check_and_run_tasks raises before *)
(* its for loop (the read of the tasks table fails): logged, then sleep.   *)
TickFails ==
  /\ _running
  /\ now >= nextTick
  /\ nextTick' = now + check_interval
  /\ lastPass' = [at |-> now, failed |-> TRUE, prev_failed |-> lastPass.failed,
                  raised |-> {}, due |-> {}, dispatched |-> {}]
  /\ UNCHANGED <<now, tasks, history, jobs, _running_tasks, _semaphore, lastTick, _running>>
  /\ UNCHANGED otherThanSched

(* CronScheduler.stop: the loop task is cancelled in its sleep and awaited *)
Stop ==
  /\ _running
  /\ _running' = FALSE
  /\ UNCHANGED <<now, nextTick, tasks, history, jobs, _running_tasks, _semaphore, lastTick,
                 lastPass>>
  /\ UNCHANGED otherThanSched

(* _run_task_with_semaphore up to the first suspension inside execute_task: *)
(* acquire the permit, add the id, insert the running history row.          *)
StartJob(i) ==
  /\ i \in Waiting
  /\ CanAcquire(i)
  /\ _semaphore' = _semaphore - 1
  /\ _running_tasks' = _running_tasks \cup {jobs[i].task_id}
  /\ history' = Append(history, [task_id |-> jobs[i].task_id, started_at |-> now,
                                 status |-> "running"])
  /\ jobs' = [jobs EXCEPT ![i].pc = "running", ![i].hid = Len(history) + 1]
  /\ UNCHANGED <<now, nextTick, tasks, lastTick, _running, lastPass>>
  /\ UNCHANGED otherThanSched

(* claudecron_run_task: execute_task called directly, outside the scheduler *)
ManualRun(t) ==
  /\ t \in TaskIds
  /\ Cardinality({i \in DOMAIN jobs : jobs[i].src = "manual"}) < MaxManual
  /\ Len(jobs) < MaxJobs
  /\ history' = Append(history, [task_id |-> t, started_at |-> now, status |-> "running"])
  /\ jobs' = Append(jobs, [task_id |-> t, src |-> "manual", slot |-> NoRun,
                           pc |-> "running", hid |-> Len(history) + 1])
  /\ UNCHANGED <<now, nextTick, tasks, _running_tasks, _semaphore, lastTick, _running, lastPass>>
  /\ UNCHANGED otherThanSched

PermitReleasedOnReturn(outcome) == outcome \in {"success", "failed"}

(* `async with self._semaphore` releases the permit however its body ends: *)
(* by a return, an exception or a cancellation                             *)
PermitReleased(outcome) == TRUE

(* The execution ends.  outcome: what execute_task did. *)
FinishJob(i, outcome) ==
  /\ i \in Running
  /\ history' = IF outcome \in {"success", "failed"}
                THEN [history EXCEPT ![jobs[i].hid].status = outcome]
                ELSE history
  /\ jobs' = [jobs EXCEPT ![i].pc = "done"]
  /\ IF jobs[i].src = "sched"
     THEN /\ _running_tasks' = _running_tasks \ {jobs[i].task_id}
          /\ _semaphore' = IF PermitReleased(outcome) THEN _semaphore + 1 ELSE _semaphore
     ELSE UNCHANGED <<_running_tasks, _semaphore>>
  /\ UNCHANGED <<now, nextTick, tasks, lastTick, _running, lastPass>>
  /\ UNCHANGED otherThanSched

(* The clock advances while the event loop is idle: the loop task sleeps   *)
(* and no dispatched execution is ready to run.                            *)
AdvanceTime ==
  LET
      Startable == {i \in Waiting : CanAcquire(i)}
  IN
    /\ now < nextTick
    /\ now < MaxTime
    /\ Startable = {}
    /\ now' = Min2(now + Step, nextTick)
    /\ UNCHANGED <<nextTick, tasks, history, jobs, _running_tasks, _semaphore, lastTick,
                   _running, lastPass>>
    /\ UNCHANGED otherThanSched

(***************************************************************************)
(* Part 2: SubagentExecutorMCP.execute (Mode A)                            *)
(*                                                                         *)
(* A tool name is a sequence of tokens, so that "pattern in name" is a     *)
(* computed substring test.  A text is a sequence of characters.           *)
(***************************************************************************)
MAX_SUBAGENT_DEPTH == 3

(* bounds of the agent model *)
MaxChain == 4

MaxTurns == 2

NumAsyncTasks == 2

EmailSend == <<"email_", "send">>

CronAdd == <<"claudecron_", "add_task">>

CronList == <<"x_", "claudecron_", "list">>

RecursionGuardPattern == <<"claudecron_">>

ServerUrls == {"u_email", "u_cron"}

(* what each server answers to tools/list *)
ServerTools(url) == IF url = "u_email" THEN <<EmailSend, CronAdd>> ELSE <<CronList>>

(* the mcp_servers argument *)
ServerLists == {<<>>, <<"u_email">>, <<"u_cron">>, <<"u_cron", "u_email">>}

NoReply == [stop_reason |-> "none", content |-> <<>>]

ErrNoTools == "No tools available from MCP servers"

ErrMaxTurns == "Max turns exceeded"

ErrRecursion == "Subagent recursion limit exceeded"

ErrApi == "Claude API error"

ErrException == "exception"
(* pattern in name *)
PatternIn(pattern, name) ==
  \E i \in 1..(Len(name) - Len(pattern) + 1) :
    SubSeq(name, i, i + Len(pattern) - 1) = pattern

RECURSIVE Flatten(_)
Flatten(sqs) == IF sqs = <<>> THEN <<>> ELSE Head(sqs) \o Flatten(Tail(sqs))

(* the tools of the connected sessions, in session order *)
SessionTools(urls) == Flatten([i \in 1..Len(urls) |-> ServerTools(urls[i])])

FormatToolsCallerOnly(tools, exclude_patterns) ==
  LET exclude == IF exclude_patterns # <<>> THEN exclude_patterns
                 ELSE <<RecursionGuardPattern>>
      Keep(name) == ~ \E k \in 1..Len(exclude) : PatternIn(exclude[k], name)
  IN SelectSeq(tools, Keep)

(* MCPClientHub.to_anthropic_format, lines 265-282, over the tools of the   *)
(* sessions: exclude is a copy of the caller's list (the empty list for     *)
(* None or an empty list) with "claudecron_" appended                       *)
FormatTools(tools, exclude_patterns) ==
  LET exclude == (IF exclude_patterns # <<>> THEN exclude_patterns ELSE <<>>)
                   \o <<RecursionGuardPattern>>
      Keep(name) == ~ \E k \in 1..Len(exclude) : PatternIn(exclude[k], name)
  IN SelectSeq(tools, Keep)

(* MCPClientHub.to_anthropic_format: every session tool whose name contains *)
(* none of the exclude patterns, "claudecron_" always being one of them.    *)
to_anthropic_format(urls, exclude_patterns) ==
  FormatTools(SessionTools(urls), exclude_patterns)

RecursionLimitOffByOne(current) == current > MAX_SUBAGENT_DEPTH

(* check_recursion_depth: raises when the limit is reached, else depth + 1 *)
RecursionLimitExceeded(current) == current >= MAX_SUBAGENT_DEPTH

reset_keeps_depth(depth) == depth

(* reset_recursion_depth(depth): the value the context variable is set to *)
reset_recursion_depth(depth) == IF depth - 1 > 0 THEN depth - 1 ELSE 0

tool_use_blocks(reply) ==
  LET
      (* the tool_use blocks of a reply, in order *)
      IsToolUse(block) == block.type = "tool_use"
  IN
    SelectSeq(reply.content, IsToolUse)

RECURSIVE ConcatText(_)
ConcatText(content) ==
  IF content = <<>> THEN <<>>
  ELSE (IF Head(content).type = "text" THEN Head(content).text ELSE <<>>)
       \o ConcatText(Tail(content))

NoToolsResolvedNever(tools) == FALSE

(* if not tools *)
NoToolsResolved(tools) == tools = <<>>

SubagentResult(success, output, tool_calls, turns_used, error) ==
  [success |-> success, output |-> output, tool_calls |-> tool_calls,
   turns_used |-> turns_used, error |-> error]

NoResult == [returned |-> FALSE]

Top == frames[Len(frames)]

SetTop(f) == [frames EXCEPT ![Len(frames)] = f]

(* ids of the tasks table as execute_task sees it *)
StoreIds == {"b", "s", "gone"}

(* the notification column of a task row *)
NoPolicy == [json |-> "null", email |-> FALSE, on_success |-> TRUE, on_failure |-> TRUE]

NoRow == [exists |-> FALSE, type |-> "bash", subagent_mode |-> "none", mcp_servers |-> <<>>,
          allowed_tools |-> <<>>, notification |-> NoPolicy]

(* no execute_task call is made *)
InitTaskIdle ==
  /\ db_tasks = [id \in StoreIds |-> NoRow]
  /\ db_history = <<>>
  /\ calls = <<>>

(* what call_tool returns: a dict with or without the key "error" *)
CallResult(has_error, body) == [has_error |-> has_error, body |-> body]

(* no Hub operation is in progress *)
HubIdle(connects) ==
  [pc |-> "idle", urls |-> <<>>, stage |-> <<>>, got |-> <<>>, at |-> 0, step |-> "none",
   before |-> <<>>, noticed |-> {}, released |-> {}, connects |-> connects]

NoHubDone ==
  LET
      NoCallResult == CallResult(FALSE, "none")
  IN
    [op |-> "none", raised |-> FALSE, urls |-> <<>>, got |-> <<>>, had |-> {}, name |-> <<>>,
     reply |-> "none", result |-> NoCallResult, exclude |-> <<>>, tools |-> <<>>,
     before |-> <<>>, noticed |-> {}, released |-> {}]

NoToolDone ==
  [op |-> "none", raised |-> FALSE, json |-> "none", args |-> <<>>, before |-> <<>>,
   data |-> <<>>]

(* MCPClientHub.__init__, and the module globals and tables of a server    *)
(* that no tool operation has been called on; `registry` tells whether     *)
(* init_registry has run                                                   *)
InitServerIdle(registry) ==
  /\ sessions = <<>>
  /\ _tool_to_server = {}
  /\ hub = HubIdle(0)
  /\ hubDone = NoHubDone
  /\ exclude_list = <<>>
  /\ open_clients = {}
  /\ mcp_servers_table = <<>>
  /\ _registry = registry
  /\ _initialized = registry
  /\ restarts = 0
  /\ tasks_table = <<>>
  /\ tasks_cache = <<>>
  /\ toolDone = NoToolDone

(* the asyncio tasks that run executions side by side *)
AsyncTasks == 1..NumAsyncTasks

ContextOfShared(task) == 1

(* the contextvars context a task runs in: asyncio.create_task gives every *)
(* task a copy of the context of its creator, here of the scheduler loop   *)
ContextOf(task) == task

InitAgent ==
  /\ frames = <<>>
  /\ _subagent_depth = 0
  /\ lastResult = NoResult
  /\ chainPeak = 0
  /\ contexts = [c \in AsyncTasks |-> 0]
  /\ chains = [task \in AsyncTasks |-> [depths |-> <<>>, last |-> "none", nesting |-> 0]]

Init == InitScheduler /\ InitAgent /\ InitTaskIdle /\ InitServerIdle(FALSE)

hub_close_skipped(f) == f

(* finally: if self.mcp_hub: await self.mcp_hub.close() *)
hub_close(f) ==
  IF f.hub # "none" THEN [f EXCEPT !.hub = "closed", !.closes = f.closes + 1] ELSE f

(* The exit of execute: the except clauses have built `result`; the finally *)
(* block resets the depth and then awaits mcp_hub.close().                  *)
Exit(f, result) ==
  /\ _subagent_depth' = IF f.depth > 0 THEN reset_recursion_depth(f.depth) ELSE _subagent_depth
  /\ frames' = SetTop(hub_close([f EXCEPT !.pc = "close", !.result = result]))
  /\ lastResult' = NoResult
  /\ UNCHANGED chainPeak

(* The head of the while loop: the next model request, or the turn limit. *)
LoopHead(f) ==
  IF f.turns_used < f.max_turns
  THEN /\ frames' = SetTop([f EXCEPT !.pc = "api", !.turns_used = f.turns_used + 1,
                                     !.requests = f.requests + 1, !.tool_results = <<>>])
       /\ lastResult' = NoResult
       /\ UNCHANGED <<_subagent_depth, chainPeak>>
  ELSE Exit(f, SubagentResult(FALSE, <<>>, f.tool_calls_log, f.turns_used, ErrMaxTurns))

(* execute is called: by an outside caller, or from inside a tool call of  *)
(* the innermost active call of the chain (same context); a nested call is *)
(* the agent invoking itself again, with the arguments of its caller.      *)
Execute(mcp_servers, max_turns) ==
  LET
      (* where the model lets a nested call enter: the first tool call of a call *)
      NestingPoint(f) == f.pc = "call_tool" /\ f.turns_used = 1 /\ f.blk = 1
      check_recursion_depth(current) == current + 1
  IN
    /\ Len(frames) < MaxChain
    /\ frames # <<>> => /\ NestingPoint(Top)
                         /\ mcp_servers = Top.mcp_servers
                         /\ max_turns = Top.max_turns
    /\ chainPeak' = IF frames = <<>> THEN 1
                    ELSE IF Len(frames) + 1 > chainPeak THEN Len(frames) + 1 ELSE chainPeak
    /\ IF RecursionLimitExceeded(_subagent_depth)
       THEN (* depth stays 0, self.mcp_hub is None: the call returns at once *)
            /\ lastResult' = [returned |-> TRUE, level |-> Len(frames) + 1,
                              result |-> SubagentResult(FALSE, <<>>, <<>>, 0, ErrRecursion),
                              entry_depth |-> _subagent_depth, exit_depth |-> _subagent_depth,
                              max_turns |-> max_turns, requests |-> 0, calls |-> <<>>,
                              reply |-> NoReply, tools |-> <<>>, routing |-> {},
                              connected |-> FALSE, hub |-> "none", closes |-> 0,
                              asked_tools |-> TRUE]
            /\ UNCHANGED <<frames, _subagent_depth>>
       ELSE /\ _subagent_depth' = check_recursion_depth(_subagent_depth)
            /\ frames' = Append(frames,
                  [pc |-> "connect", depth |-> check_recursion_depth(_subagent_depth),
                   entry_depth |-> _subagent_depth, mcp_servers |-> mcp_servers,
                   max_turns |-> max_turns, hub |-> "open", closes |-> 0,
                   connected |-> FALSE,
                   tools |-> <<>>, routing |-> {},
                   turns_used |-> 0, tool_calls_log |-> <<>>, reply |-> NoReply, blk |-> 0,
                   tool_results |-> <<>>, requests |-> 0, calls |-> <<>>,
                   messages |-> <<>>,
                   asked_tools |-> TRUE, result |-> NoResult])
            /\ lastResult' = NoResult
    /\ UNCHANGED otherThanAgent

(* mcp_hub.connect returns: `connected` are the URLs whose session was set *)
(* up.  Then to_anthropic_format and the first pass through the loop head. *)
ConnectDone(connected) ==
  LET
      (* mcp_client.py, lines 189-197 *)
      (* MCPClientHub._tool_to_server after connect: every enumerated name *)
      ToolToServer(urls) == {SessionTools(urls)[i] : i \in 1..Len(SessionTools(urls))}
  IN
    /\ frames # <<>> /\ Top.pc = "connect"
    /\ LET isConnected(u) == u \in connected
           connected_urls == SelectSeq(Top.mcp_servers, isConnected)
           tools == to_anthropic_format(connected_urls, <<>>)
           (* line 163: messages = [{"role": "user", "content": prompt}] *)
           f == [Top EXCEPT !.tools = tools, !.routing = ToolToServer(connected_urls),
                            !.connected = TRUE,
                            !.messages = <<[role |-> "user", kind |-> "prompt",
                                            content |-> <<>>]>>]
       IN IF NoToolsResolved(tools)
          THEN Exit(f, SubagentResult(FALSE, <<>>, <<>>, 0, ErrNoTools))
          ELSE LoopHead(f)
    /\ UNCHANGED otherThanAgent

(* an unexpected exception leaves connect or the model request *)
RaiseUnexpected ==
  /\ frames # <<>> /\ Top.pc \in {"connect", "api"}
  /\ Exit(Top, SubagentResult(FALSE, <<>>, Top.tool_calls_log, 0, ErrException))
  /\ UNCHANGED otherThanAgent

(* the model request fails with anthropic.APIError *)
ApiError ==
  /\ frames # <<>> /\ Top.pc = "api"
  /\ Exit(Top, SubagentResult(FALSE, <<>>, Top.tool_calls_log, 0, ErrApi))
  /\ UNCHANGED otherThanAgent

(* the model request returns `reply` *)
ApiDone(reply) ==
  LET
      (* the reply ends the loop *)
      NaturalStop(reply0) == reply0.stop_reason = "end_turn" \/ tool_use_blocks(reply0) = <<>>
      NoError == "None"
  IN
    /\ frames # <<>> /\ Top.pc = "api"
    /\ LET f == [Top EXCEPT !.reply = reply,
                            !.asked_tools = Top.asked_tools /\ tool_use_blocks(reply) # <<>>,
                            !.messages = Append(@, [role |-> "assistant", kind |-> "reply",
                                                    content |-> reply.content])]
       IN IF NaturalStop(reply)
          THEN Exit(f, SubagentResult(TRUE, ConcatText(reply.content), f.tool_calls_log,
                                      f.turns_used, NoError))
          ELSE /\ frames' = SetTop([f EXCEPT !.pc = "call_tool", !.blk = 1,
                           !.calls = Append(f.calls, tool_use_blocks(reply)[1].name)])
               /\ lastResult' = NoResult
               /\ UNCHANGED <<_subagent_depth, chainPeak>>
    /\ UNCHANGED otherThanAgent

(* mcp_hub.call_tool for the current block is over.  outcome: "ok" a      *)
(* result without an "error" key, "error" a result with one, "raise" an   *)
(* exception inside the try block of the tool dispatch before the log     *)
(* entry of line 234 is appended (a result that is no container),         *)
(* "unreadable" an exception after it: a result without an "error" key    *)
(* that is no dict, or whose "content" cannot be iterated (lines 251-258).*)
ToolDone(outcome) ==
  /\ frames # <<>> /\ Top.pc = "call_tool"
  /\ LET blocks == tool_use_blocks(Top.reply)
         block == blocks[Top.blk]
         raised == outcome \in {"raise", "unreadable"}
     IN /\ block.name \notin Top.routing => outcome \notin {"ok", "unreadable"}
        /\ LET entry == [tool |-> block.name, result |-> IF raised THEN "None" ELSE outcome,
                         success |-> outcome = "ok", error |-> raised]
               logged == [tool |-> block.name, result |-> "ok", success |-> TRUE, error |-> FALSE]
               tr == [tool_use_id |-> block.id, is_error |-> outcome # "ok"]
               f == [Top EXCEPT !.tool_calls_log =
                                   IF outcome = "unreadable" THEN @ \o <<logged, entry>>
                                   ELSE Append(@, entry),
                                !.tool_results = Append(Top.tool_results, tr)]
           IN IF Top.blk < Len(blocks)
              THEN /\ frames' = SetTop([f EXCEPT !.blk = Top.blk + 1,
                                 !.calls = Append(f.calls, blocks[Top.blk + 1].name)])
                   /\ lastResult' = NoResult
                   /\ UNCHANGED <<_subagent_depth, chainPeak>>
              ELSE (* line 292: the results of the turn are one user message *)
                   LoopHead([f EXCEPT !.messages = Append(@, [role |-> "user", kind |-> "results",
                                                              content |-> f.tool_results])])
  /\ UNCHANGED otherThanAgent

(* mcp_hub.close() is over and execute returns its result to the caller *)
Return ==
  /\ frames # <<>> /\ Top.pc = "close"
  /\ lastResult' = [returned |-> TRUE, level |-> Len(frames), result |-> Top.result,
                    entry_depth |-> Top.entry_depth, exit_depth |-> _subagent_depth,
                    max_turns |-> Top.max_turns, requests |-> Top.requests,
                    calls |-> Top.calls, reply |-> Top.reply, tools |-> Top.tools,
                    routing |-> Top.routing, connected |-> Top.connected,
                    hub |-> Top.hub, closes |-> Top.closes,
                    asked_tools |-> Top.asked_tools]
  /\ frames' = SubSeq(frames, 1, Len(frames) - 1)
  /\ UNCHANGED <<_subagent_depth, chainPeak>>
  /\ UNCHANGED otherThanAgent

NextAgent ==
  LET
      (* replies of the language-model API *)
      Replies ==
        LET
            ToolUse(i, n) == [type |-> "tool_use", text |-> <<>>, id |-> i, name |-> n]
            Text(t) == [type |-> "text", text |-> t, id |-> 0, name |-> <<>>]
        IN
          {[stop_reason |-> "end_turn", content |-> <<Text(<<"a">>)>>],
           [stop_reason |-> "end_turn", content |-> <<Text(<<"a">>), Text(<<"b">>)>>],
           [stop_reason |-> "max_tokens", content |-> <<Text(<<"b">>)>>],
           [stop_reason |-> "tool_use", content |-> <<>>],
           [stop_reason |-> "tool_use", content |-> <<Text(<<"a">>), ToolUse(1, EmailSend)>>],
           [stop_reason |-> "tool_use", content |-> <<ToolUse(1, EmailSend), ToolUse(2, CronAdd)>>],
           [stop_reason |-> "max_tokens", content |-> <<ToolUse(1, CronAdd)>>],
           [stop_reason |-> "end_turn", content |-> <<Text(<<"b">>), ToolUse(1, EmailSend)>>]}
  IN
    \/ \E l \in ServerLists, m \in 0..MaxTurns : Execute(l, m)
    \/ \E c \in SUBSET ServerUrls : ConnectDone(c)
    \/ RaiseUnexpected
    \/ ApiError
    \/ \E r \in Replies : ApiDone(r)
    \/ \E o \in {"ok", "error", "raise", "unreadable"} : ToolDone(o)
    \/ Return

(* the scheduler is idle while the executor is studied *)
InitAgentOnly ==
  /\ now = 0
  /\ nextTick = 0
  /\ tasks = [id \in TaskIds |-> TaskRow(id)]
  /\ history = <<>>
  /\ jobs = <<>>
  /\ _running_tasks = {}
  /\ _semaphore = max_concurrent
  /\ lastTick = NoRun
  /\ _running = TRUE
  /\ lastPass = NoPass
  /\ InitAgent
  /\ InitTaskIdle
  /\ InitServerIdle(FALSE)

SpecAgent == InitAgentOnly /\ [][NextAgent]_vars

Outcomes == {"success", "failed", "raised", "cancelled"}

NextScheduler ==
  \/ Tick({})
  \/ \E i \in DOMAIN jobs : StartJob(i)
  \/ \E t \in TaskIds : ManualRun(t)
  \/ \E i \in DOMAIN jobs, o \in Outcomes : FinishJob(i, o)
  \/ AdvanceTime

SpecScheduler == Init /\ [][NextScheduler]_vars

(* the event loop runs every execution that is ready: one that can take a  *)
(* permit takes it, and a running one comes to its end                     *)
SpecSchedulerFair ==
  /\ Init
  /\ [][NextScheduler]_vars
  /\ \A i \in 1..MaxJobs : WF_vars(StartJob(i))
  /\ \A i \in 1..MaxJobs : WF_vars(\E o \in Outcomes : FinishJob(i, o))

(* the scheduler loop with failing reads, failing ticks and stop() *)
NextLoop ==
  LET
      (* the reads of the last run that can fail during one tick *)
      FailingReads == {{}, {2}}
  IN
    \/ \E f \in FailingReads : Tick(f)
    \/ TickFails
    \/ Stop
    \/ \E i \in DOMAIN jobs : StartJob(i)
    \/ \E i \in DOMAIN jobs, o \in Outcomes : FinishJob(i, o)
    \/ AdvanceTime

SpecLoop == Init /\ [][NextLoop]_vars

(***************************************************************************)
(* Part 3: execute_task (server.py) with the subagent dispatcher           *)
(* SubagentExecutor.execute (subagent.py) and the CLI executor             *)
(* SubagentExecutorCLI.execute (subagent_cli.py).                          *)
(*                                                                         *)
(* A byte string is a sequence of byte values, a text a sequence of        *)
(* characters; an Optional[str] is None or Str(text).                      *)
(***************************************************************************)
MaxCalls == 2

None == [some |-> FALSE, text |-> <<>>]

Str(t) == [some |-> TRUE, text |-> t]

(* truth value of an Optional[str] or of a list *)
Truthy(v) == v.some /\ v.text # <<>>

Utf8Valid(b) == \A i \in DOMAIN b : b[i] < 128

Chr(byte) == IF byte = 104 THEN "h" ELSE "?"

(* bytes.decode(): defined on valid UTF-8 only, else UnicodeDecodeError *)
decode(b) == [i \in DOMAIN b |-> Chr(b[i])]

ErrCliNotFound == <<"Claude CLI not found at: claude">>

BranchOutcome(status, output, error, tool_calls, turns_used, mode_used) ==
  [status |-> status, output |-> output, error |-> error, tool_calls |-> tool_calls,
   turns_used |-> turns_used, mode_used |-> mode_used]

UnifiedResult(success, output, mode_used, tool_calls, turns_used, error) ==
  [success |-> success, output |-> output, mode_used |-> mode_used,
   tool_calls |-> tool_calls, turns_used |-> turns_used, error |-> error]

(* execute_task, subagent branch after the dispatcher has returned: 240-253 *)
SubagentBranch(result) ==
  LET
      ToolCallLine(tc) == IF tc.success THEN "+" ELSE "-"
  IN
    LET output == IF result.tool_calls # <<>>
                  THEN result.output \o <<"--- Tool Calls ---">>
                         \o [i \in DOMAIN result.tool_calls |-> ToolCallLine(result.tool_calls[i])]
                  ELSE result.output
    IN BranchOutcome(IF result.success THEN "success" ELSE "failed", Str(output),
                     IF result.success THEN None ELSE result.error,
                     result.tool_calls, result.turns_used, Str(<<result.mode_used>>))

auto_select_ignores_cli(mcp_servers, allowed_tools, which_claude) ==
  IF mcp_servers # <<>> THEN "mcp_client"
  ELSE IF allowed_tools # <<>> THEN "claude_cli"
  ELSE "mcp_client"

(* SubagentExecutor._auto_select_mode; which_claude: shutil.which("claude") *)
(* finds the binary                                                         *)
_auto_select_mode(mcp_servers, allowed_tools, which_claude) ==
  IF mcp_servers # <<>> THEN "mcp_client"
  ELSE IF allowed_tools # <<>> /\ which_claude THEN "claude_cli"
  ELSE "mcp_client"

(* SubagentExecutor.execute, lines 127-130 *)
SelectedMode(mode, mcp_servers, allowed_tools, which_claude) ==
  IF mode = "auto" THEN _auto_select_mode(mcp_servers, allowed_tools, which_claude) ELSE mode

(* servers_to_use = mcp_servers or await self._get_default_mcp_servers() *)
ServersToUse(mcp_servers, registry) ==
  LET
      (* mcp_registry.py, lines 213-214 *)
      IsEnabled(server) == server.enabled
      (* SubagentExecutor._get_default_mcp_servers *)
      _get_default_mcp_servers(registry0) ==
        IF registry0.initialized
        THEN LET servers == SelectSeq(registry0.servers, IsEnabled)
             IN [i \in DOMAIN servers |-> servers[i].url]
        ELSE <<>>
  IN
    IF mcp_servers # <<>> THEN mcp_servers ELSE _get_default_mcp_servers(registry)

CLIResult(success, output, exit_code, error) ==
  [success |-> success, output |-> output, exit_code |-> exit_code, error |-> error]

(* SubagentExecutor._execute_cli, lines 226-233 *)
FromCliResult(result) ==
  UnifiedResult(result.success, result.output, "claude_cli", <<>>, 0, result.error)

(* the database holds a shell task "b" and a subagent task "s"; no task   *)
(* has the id "gone"                                                      *)
InitTask ==
  LET
      (* notifier.py, lines 19-26 *)
      Policy(email, on_success, on_failure) ==
        [json |-> "object", email |-> email, on_success |-> on_success, on_failure |-> on_failure]
      (* notifier.py, lines 33-38 *)
      (* a notification column that does not parse *)
      BadPolicy == [json |-> "unparsable", email |-> FALSE, on_success |-> TRUE, on_failure |-> TRUE]
      SubagentRow(subagent_mode, mcp_servers, allowed_tools, notification) ==
        [exists |-> TRUE, type |-> "subagent", subagent_mode |-> subagent_mode,
         mcp_servers |-> mcp_servers, allowed_tools |-> allowed_tools,
         notification |-> notification]
      BashRow(notification) ==
        [exists |-> TRUE, type |-> "bash", subagent_mode |-> "none", mcp_servers |-> <<>>,
         allowed_tools |-> <<>>, notification |-> notification]
      TaskModes == {"mcp_client", "claude_cli", "auto", "none"}
      NotificationColumns ==
        {NoPolicy, BadPolicy, Policy(TRUE, TRUE, TRUE), Policy(TRUE, FALSE, TRUE),
         Policy(FALSE, TRUE, TRUE)}
  IN
    /\ \E n \in NotificationColumns, sm \in TaskModes,
          ms \in {<<>>, <<"u_email">>}, at \in {<<>>, <<"mcp__email__send">>} :
         /\ n = Policy(TRUE, TRUE, TRUE) \/ (sm = "auto" /\ ms = <<>> /\ at = <<>>)
         /\ db_tasks = [id \in StoreIds |->
                          IF id = "b" THEN BashRow(n)
                          ELSE IF id = "s" THEN SubagentRow(sm, ms, at, n)
                          ELSE NoRow]
    /\ db_history = <<>>
    /\ calls = <<>>

NoRegistry == [initialized |-> FALSE, servers |-> <<>>]

(* what execute_task returns *)
TaskResult(task_id, history_id, outcome) ==
  [kind |-> "result", task_id |-> task_id, history_id |-> history_id,
   status |-> outcome.status, output |-> outcome.output, error |-> outcome.error,
   tool_calls |-> outcome.tool_calls, turns_used |-> outcome.turns_used,
   mode_used |-> outcome.mode_used]

RowFoundAlways(task_id) == TRUE

(* the SELECT of lines 166-172 returned a row *)
RowFound(task_id) == db_tasks[task_id].exists

UpdateByTask(call, row) == row.task_id = call.task_id

(* UPDATE history ... WHERE id = history_id *)
UpdateTarget(call, row) == row.id = call.history_id

notify_escapes_uncaught(outcome) == outcome = "raised"

(* an exception of the notification block reaches the caller: never, the  *)
(* except clause of lines 302-303 logs it                                 *)
notify_escapes(outcome) == FALSE

(* execute_task from the end of its try statement to the first await of   *)
(* the notification block: UPDATE history, build the result, parse the    *)
(* notification column and decide whether an email is attempted.          *)
Finalize(i, call, outcome) ==
  LET
      (* notifier.py, lines 73-86 *)
      (* NotificationService.send_task_notification, lines 74-86: an email is   *)
      (* attempted                                                              *)
      SendAttempted(config, status) ==
        /\ ~(status = "success" /\ ~config.on_success)
        /\ ~(status = "failed" /\ ~config.on_failure)
        /\ config.email
      (* notifier.py, lines 28-38 *)
      (* NotificationConfig.from_json: None for an empty column and, after      *)
      (* logging, for one that does not parse                                   *)
      from_json(column) ==
        [some |-> column.json = "object", email |-> column.email,
         on_success |-> column.on_success, on_failure |-> column.on_failure]
  IN
    LET c == [call EXCEPT !.outcome = outcome, !.finalized = TRUE]
        (* task.get('notification') of the dict read when the call began *)
        column == c.notification
        config == from_json(column)
        attempted == config.some /\ SendAttempted(config, outcome.status)
    IN /\ db_history' =
            [r \in DOMAIN db_history |->
               IF UpdateTarget(c, db_history[r])
               THEN [db_history[r] EXCEPT !.finished = TRUE, !.status = outcome.status,
                                          !.output = outcome.output, !.error = outcome.error,
                                          !.turns_used = outcome.turns_used,
                                          !.mode_used = outcome.mode_used,
                                          !.writes = @ + 1, !.writers = @ \cup {i}]
               ELSE db_history[r]]
       /\ calls' = [calls EXCEPT ![i] =
            [c EXCEPT !.pc = IF attempted THEN "notify" ELSE "returned",
                      !.sends = IF attempted THEN 1 ELSE 0,
                      !.notify = IF column.json = "unparsable" THEN "unparsable"
                                 ELSE IF ~config.some THEN "none"
                                 ELSE IF attempted THEN "pending" ELSE "skipped",
                      !.result = TaskResult(c.task_id, c.history_id, outcome)]]

(* execute_task is called, by claudecron_run_task or by the scheduler: up *)
(* to the first await of the branch.  For a subagent task this includes   *)
(* the mode selection of SubagentExecutor.execute.                        *)
CallExecuteTask(task_id, which_claude, registry) ==
  LET
      NewCall(task_id0) ==
        LET
            NoReturn ==
              [kind |-> "none", task_id |-> "gone", history_id |-> 0,
               status |-> "none", output |-> None, error |-> None,
               tool_calls |-> <<>>, turns_used |-> 0, mode_used |-> None]
            NoDispatch == UnifiedResult(FALSE, <<>>, "none", <<>>, 0, None)
            NoOutcome == BranchOutcome("running", None, None, <<>>, 0, None)
        IN
          [task_id |-> task_id0, found |-> FALSE, pc |-> "returned", history_id |-> 0,
           type |-> "none", mode |-> "none", mcp_servers |-> <<>>, allowed_tools |-> <<>>,
           notification |-> NoPolicy, which_claude |-> FALSE, registry |-> NoRegistry,
           selected_mode |-> "none", servers_to_use |-> <<>>,
           proc |-> "none", event |-> "none", timed_out |-> FALSE,
           returncode |-> 0, stdout |-> <<>>, stderr |-> <<>>, exc_text |-> <<>>,
           dispatcher |-> NoDispatch, outcome |-> NoOutcome, finalized |-> FALSE,
           sends |-> 0, notify |-> "none", result |-> NoReturn]
      (* INSERT INTO history (id, task_id, started_at, status): the row of one  *)
      (* execution; creator, writes and writers record who wrote it             *)
      NewRow(history_id, task_id0, creator) ==
        [id |-> history_id, task_id |-> task_id0, status |-> "running", finished |-> FALSE,
         output |-> None, error |-> None, turns_used |-> 0, mode_used |-> None,
         creator |-> creator, writes |-> 0, writers |-> {}]
      (* {"error": "Task not found: <task_id>"} *)
      ErrorPayload(task_id0) ==
        [kind |-> "error", task_id |-> task_id0, history_id |-> 0,
         status |-> "none", output |-> None, error |-> Str(<<"Task not found: ", task_id0>>),
         tool_calls |-> <<>>, turns_used |-> 0, mode_used |-> None]
      (* execute_task, lines 219-223: the mode handed to the dispatcher; the    *)
      (* environment default SUBAGENT_DEFAULT_MODE is left at "auto"            *)
      ModeOfTask(subagent_mode) ==
        LET mode_str == IF subagent_mode = "none" THEN "auto" ELSE subagent_mode
        IN IF mode_str \in {"mcp_client", "claude_cli"} THEN mode_str ELSE "auto"
  IN
    /\ Len(calls) < MaxCalls
    /\ LET row == db_tasks[task_id]
           i == Len(calls) + 1
           (* uuid4: an id that no execution has had *)
           history_id == 1 + SetMax({0} \cup {db_history[r].id : r \in DOMAIN db_history}
                                        \cup {calls[k].history_id : k \in DOMAIN calls})
           base == [NewCall(task_id) EXCEPT !.found = TRUE, !.history_id = history_id,
                                            !.type = row.type,
                                            !.notification = row.notification]
           mode == ModeOfTask(row.subagent_mode)
           selected == SelectedMode(mode, row.mcp_servers, row.allowed_tools, which_claude)
       IN IF ~RowFound(task_id)
          THEN /\ which_claude = FALSE /\ registry = NoRegistry
               /\ calls' = Append(calls, [NewCall(task_id) EXCEPT !.result = ErrorPayload(task_id)])
               /\ UNCHANGED db_history
          ELSE /\ db_history' = Append(db_history, NewRow(history_id, task_id, i))
               /\ IF row.type = "bash"
                  THEN /\ which_claude = FALSE /\ registry = NoRegistry
                       /\ calls' = Append(calls, [base EXCEPT !.pc = "bash_spawn"])
                  ELSE calls' = Append(calls,
                         [base EXCEPT !.mode = mode, !.mcp_servers = row.mcp_servers,
                                      !.allowed_tools = row.allowed_tools,
                                      !.which_claude = which_claude, !.registry = registry,
                                      !.selected_mode = selected,
                                      !.servers_to_use =
                                         IF selected = "mcp_client"
                                         THEN ServersToUse(row.mcp_servers, registry)
                                         ELSE <<>>,
                                      !.pc = IF selected = "mcp_client" THEN "mcp_wait"
                                             ELSE "cli_spawn"])
    /\ UNCHANGED db_tasks
    /\ UNCHANGED otherThanTask

(* create_subprocess_shell has started the child *)
BashSpawned(i) ==
  /\ i \in DOMAIN calls /\ calls[i].pc = "bash_spawn"
  /\ calls' = [calls EXCEPT ![i].pc = "bash_wait", ![i].proc = "running"]
  /\ UNCHANGED <<db_tasks, db_history>>
  /\ UNCHANGED otherThanTask

(* the branch raises an exception: the child cannot be started, or the    *)
(* dispatcher raises                                                      *)
BranchRaises(i, text) ==
  LET
      (* except Exception as e *)
      BranchException(text0) == BranchOutcome("failed", None, Str(text0), <<>>, 0, None)
  IN
    /\ i \in DOMAIN calls /\ calls[i].pc \in {"bash_spawn", "mcp_wait"}
    /\ Finalize(i, [calls[i] EXCEPT !.event = "exception", !.exc_text = text],
                BranchException(text))
    /\ UNCHANGED db_tasks
    /\ UNCHANGED otherThanTask

(* communicate() returns: the child has exited *)
BashExited(i, returncode, stdout, stderr) ==
  LET
      (* execute_task, bash branch after communicate() has returned: lines      *)
      (* 207-210, and the except clause of 258-260 for a failing decode         *)
      BashBranch(returncode1, stdout0, stderr0) ==
        LET
            ExitCodeMessage(returncode0) == <<"Exit code: ", IF returncode0 = 1 THEN "1" ELSE "n">>
            ErrDecode == <<"'utf-8' codec can't decode byte 0xff">>
        IN
          IF stdout0 # <<>> /\ ~Utf8Valid(stdout0)
          THEN BranchOutcome("failed", None, Str(ErrDecode), <<>>, 0, None)
          ELSE LET output == IF stdout0 # <<>> THEN Str(decode(stdout0)) ELSE None
               IN IF returncode1 = 0
                  THEN BranchOutcome("success", output, None, <<>>, 0, None)
                  ELSE IF stderr0 # <<>> /\ ~Utf8Valid(stderr0)
                  THEN BranchOutcome("failed", output, Str(ErrDecode), <<>>, 0, None)
                  ELSE BranchOutcome("failed", output,
                                     IF stderr0 # <<>> THEN Str(decode(stderr0))
                                     ELSE Str(ExitCodeMessage(returncode1)),
                                     <<>>, 0, None)
  IN
    /\ i \in DOMAIN calls /\ calls[i].pc = "bash_wait"
    /\ Finalize(i, [calls[i] EXCEPT !.event = "exited", !.proc = "exited",
                                    !.returncode = returncode, !.stdout = stdout,
                                    !.stderr = stderr],
                BashBranch(returncode, stdout, stderr))
    /\ UNCHANGED db_tasks
    /\ UNCHANGED otherThanTask

(* wait_for(proc.communicate(), timeout=300) times out *)
BashTimeout(i) ==
  LET
      (* the except asyncio.TimeoutError clause of execute_task does nothing to *)
      (* the child process                                                      *)
      AfterBashTimeout(proc) == proc
      (* except asyncio.TimeoutError *)
      BranchTimeout ==
        LET
            ErrTimedOut == <<"Task execution timed out">>
        IN
          BranchOutcome("failed", None, Str(ErrTimedOut), <<>>, 0, None)
  IN
    /\ i \in DOMAIN calls /\ calls[i].pc = "bash_wait"
    /\ Finalize(i, [calls[i] EXCEPT !.event = "timeout", !.timed_out = TRUE,
                                    !.proc = AfterBashTimeout(calls[i].proc)],
                BranchTimeout)
    /\ UNCHANGED db_tasks
    /\ UNCHANGED otherThanTask

(* SubagentExecutorMCP.execute returns to _execute_mcp *)
McpReturned(i, result) ==
  LET
      (* SubagentExecutor._execute_mcp, lines 190-197 *)
      FromMcpResult(result0) ==
        UnifiedResult(result0.success, result0.output, "mcp_client", result0.tool_calls,
                      result0.turns_used, result0.error)
  IN
    /\ i \in DOMAIN calls /\ calls[i].pc = "mcp_wait"
    /\ Finalize(i, [calls[i] EXCEPT !.event = "dispatcher",
                                    !.dispatcher = FromMcpResult(result)],
                SubagentBranch(FromMcpResult(result)))
    /\ UNCHANGED db_tasks
    /\ UNCHANGED otherThanTask

(* the CLI is not available, or is not found when it is started *)
CliNotStarted(i, error) ==
  /\ i \in DOMAIN calls /\ calls[i].pc = "cli_spawn"
  /\ LET result == FromCliResult(CLIResult(FALSE, <<>>, -1, Str(error)))
     IN Finalize(i, [calls[i] EXCEPT !.event = "dispatcher", !.dispatcher = result],
                 SubagentBranch(result))
  /\ UNCHANGED db_tasks
  /\ UNCHANGED otherThanTask

(* create_subprocess_exec has started the CLI *)
CliSpawned(i) ==
  /\ i \in DOMAIN calls /\ calls[i].pc = "cli_spawn"
  /\ calls' = [calls EXCEPT ![i].pc = "cli_wait", ![i].proc = "running"]
  /\ UNCHANGED <<db_tasks, db_history>>
  /\ UNCHANGED otherThanTask

(* the CLI has exited *)
CliExited(i, returncode, stdout, stderr) ==
  LET
      (* SubagentExecutorCLI.execute after communicate() has returned: 206-241;  *)
      (* the outputs modelled are not JSON, so the text is used as it is         *)
      CliCompleted(returncode1, stdout0, stderr0) ==
        LET
            CliExitMessage(returncode0) == <<"CLI exited with code ", IF returncode0 = 1 THEN "1" ELSE "n">>
            (* bytes.decode("utf-8", errors="replace") *)
            decode_replace(b) == [i0 \in DOMAIN b |-> IF b[i0] < 128 THEN Chr(b[i0]) ELSE "U+FFFD"]
        IN
          LET stdout_text == decode_replace(stdout0)
              stderr_text == decode_replace(stderr0)
          IN IF returncode1 # 0
             THEN CLIResult(FALSE, stdout_text, returncode1,
                            Str(IF stderr_text # <<>> THEN stderr_text ELSE CliExitMessage(returncode1)))
             ELSE CLIResult(TRUE, stdout_text, returncode1, None)
  IN
    /\ i \in DOMAIN calls /\ calls[i].pc = "cli_wait"
    /\ LET result == FromCliResult(CliCompleted(returncode, stdout, stderr))
       IN Finalize(i, [calls[i] EXCEPT !.event = "dispatcher", !.proc = "exited",
                                       !.returncode = returncode, !.stdout = stdout,
                                       !.stderr = stderr, !.dispatcher = result],
                   SubagentBranch(result))
    /\ UNCHANGED db_tasks
    /\ UNCHANGED otherThanTask

(* the CLI exceeds its timeout: lines 196-204 *)
CliTimeout(i) ==
  LET
      (* the child is killed and reaped: process.kill(); await process.wait()   *)
      KillAndReap(proc) == "reaped"
      ErrCliTimedOut == <<"CLI execution timed out after 300s">>
  IN
    /\ i \in DOMAIN calls /\ calls[i].pc = "cli_wait"
    /\ LET result == FromCliResult(CLIResult(FALSE, <<>>, -1, Str(ErrCliTimedOut)))
       IN Finalize(i, [calls[i] EXCEPT !.event = "dispatcher", !.timed_out = TRUE,
                                       !.proc = KillAndReap(calls[i].proc),
                                       !.dispatcher = result],
                   SubagentBranch(result))
    /\ UNCHANGED db_tasks
    /\ UNCHANGED otherThanTask

(* send_task_notification is over; outcome: "sent", "failed" (it returned *)
(* False) or "raised" (an exception left it)                              *)
NotifyDone(i, outcome) ==
  /\ i \in DOMAIN calls /\ calls[i].pc = "notify"
  /\ calls' = [calls EXCEPT ![i].notify = outcome,
                            ![i].pc = IF notify_escapes(outcome) THEN "raised" ELSE "returned"]
  /\ UNCHANGED <<db_tasks, db_history>>
  /\ UNCHANGED otherThanTask

NextTask ==
  LET
      (* subagent_mcp.py, lines 151-333 *)
      (* what SubagentExecutorMCP.execute can return to _execute_mcp *)
      McpResults ==
        LET
            ToolCall(success) == [tool |-> EmailSend, success |-> success]
        IN
          {SubagentResult(TRUE, <<"done">>, <<>>, 1, None),
           SubagentResult(TRUE, <<"done">>, <<ToolCall(TRUE), ToolCall(FALSE)>>, 2, None),
           SubagentResult(FALSE, <<>>, <<ToolCall(TRUE)>>, 2, Str(<<"Max turns exceeded (2)">>)),
           SubagentResult(FALSE, <<>>, <<>>, 0, Str(<<"No tools available from MCP servers">>))}
      (* mcp_registry.py, lines 385-399 *)
      (* the MCP registry: not initialised, or the rows of its mcp_servers table *)
      Registries ==
        {[initialized |-> FALSE, servers |-> <<>>],
         [initialized |-> TRUE, servers |-> <<>>],
         [initialized |-> TRUE, servers |-> <<[url |-> "u_off", enabled |-> FALSE],
                                              [url |-> "u_reg", enabled |-> TRUE]>>]}
      (* subagent_cli.py, lines 169-175 *)
      ErrCliUnavailable == <<"Claude CLI not available">>
      (* str(e) of the exceptions a branch can raise: a message, or nothing *)
      ExceptionTexts == {<<"boom">>, <<>>}
      (* A child process writes nothing, "h" (byte 104), or a byte that is not  *)
      (* valid UTF-8 (255).                                                     *)
      (* how a child process can end: exit code, stdout, stderr *)
      ProcessEnds ==
        {<<0, <<>>, <<>>>>, <<0, <<104>>, <<>>>>, <<0, <<255>>, <<>>>>, <<0, <<104>>, <<104>>>>,
         <<1, <<>>, <<>>>>, <<1, <<>>, <<104>>>>, <<1, <<104>>, <<255>>>>, <<1, <<255>>, <<104>>>>}
  IN
    \/ \E id \in StoreIds, w \in BOOLEAN, r \in Registries : CallExecuteTask(id, w, r)
    \/ \E i \in DOMAIN calls : BashSpawned(i)
    \/ \E i \in DOMAIN calls, t \in ExceptionTexts : BranchRaises(i, t)
    \/ \E i \in DOMAIN calls, e \in ProcessEnds : BashExited(i, e[1], e[2], e[3])
    \/ \E i \in DOMAIN calls : BashTimeout(i)
    \/ \E i \in DOMAIN calls, r \in McpResults : McpReturned(i, r)
    \/ \E i \in DOMAIN calls, e \in {ErrCliUnavailable, ErrCliNotFound} : CliNotStarted(i, e)
    \/ \E i \in DOMAIN calls : CliSpawned(i)
    \/ \E i \in DOMAIN calls, e \in ProcessEnds : CliExited(i, e[1], e[2], e[3])
    \/ \E i \in DOMAIN calls : CliTimeout(i)
    \/ \E i \in DOMAIN calls, o \in {"sent", "failed", "raised"} : NotifyDone(i, o)

(* the scheduler and the Mode A executor are idle *)
InitTaskOnly ==
  /\ now = 0
  /\ nextTick = 0
  /\ tasks = [id \in TaskIds |-> TaskRow(id)]
  /\ history = <<>>
  /\ jobs = <<>>
  /\ _running_tasks = {}
  /\ _semaphore = max_concurrent
  /\ lastTick = NoRun
  /\ _running = TRUE
  /\ lastPass = NoPass
  /\ InitAgent
  /\ InitTask
  /\ InitServerIdle(FALSE)

SpecTask == InitTaskOnly /\ [][NextTask]_vars


(***************************************************************************)
(* Part 4: MCPClientHub (mcp_client.py).                                   *)
(*                                                                         *)
(* sessions is the dict of the Hub in insertion order, _tool_to_server the *)
(* set of its items.  A connect call runs one _connect_to_server per URL   *)
(* under asyncio.gather; the calls interleave at their awaits.             *)
(***************************************************************************)
MaxConnects == 2

(* what a server can answer to tools/list: no usable HTTP reply, a JSON-RPC *)
(* error, its tools, a tools array with an entry that has no name, or the   *)
(* one tool email_send (which the server u_email declares as well)          *)
ToolsReplies(url) ==
  LET
      ListReply(status, tools) == [status |-> status, tools |-> tools]
      Nameless == [named |-> FALSE, name |-> <<>>]
      (* an entry of the "tools" array of a tools/list reply; `named`: it has    *)
      (* the key "name"                                                          *)
      Tool(n) == [named |-> TRUE, name |-> n]
  IN
    {ListReply("fails", <<>>), ListReply("error", <<>>),
     ListReply("result", [i \in 1..Len(ServerTools(url)) |-> Tool(ServerTools(url)[i])]),
     ListReply("result", <<Tool(EmailSend), Nameless>>),
     ListReply("result", <<Tool(EmailSend)>>)}

SessionUrls == {sessions[i].server_url : i \in 1..Len(sessions)}

Routed(map, name) == \E r \in map : r.name = name

(* self._tool_to_server.get(name), for a name that is mapped *)
RouteOf(map, name) == (CHOOSE r \in map : r.name = name).url

(* the tools of all sessions, in session order *)
list_tools == Flatten([i \in 1..Len(sessions) |-> sessions[i].tools])

ReplyIsErrorNever(reply) == FALSE

(* if "error" in result *)
ReplyIsError(reply) == reply = "error"

(* the httpx.AsyncClient that the i-th _connect_to_server call of the n-th *)
(* connect creates                                                        *)
ClientOf(n, i) == <<n, i>>

(* MCPClientHub.connect is called: gather starts one _connect_to_server   *)
(* per entry of the list, and each creates its client and posts initialize *)
Connect(server_urls) ==
  /\ hub.pc = "idle" /\ hub.connects < MaxConnects
  /\ hub' = [HubIdle(hub.connects + 1) EXCEPT
               !.pc = "connect", !.urls = server_urls,
               !.stage = [i \in 1..Len(server_urls) |-> "initialize"],
               !.got = [i \in 1..Len(server_urls) |-> "none"]]
  /\ hubDone' = [NoHubDone EXCEPT !.had = SessionUrls]
  /\ open_clients' = open_clients
                       \cup {ClientOf(hub.connects + 1, i) : i \in 1..Len(server_urls)}
  /\ UNCHANGED <<sessions, _tool_to_server, exclude_list>>
  /\ UNCHANGED otherThanHub

(* the initialize request of one URL is answered, or fails *)
InitializeDone(i, ok) ==
  /\ hub.pc = "connect" /\ i \in 1..Len(hub.urls) /\ hub.stage[i] = "initialize"
  /\ hub' = [hub EXCEPT !.stage[i] = IF ok THEN "notify" ELSE "failed"]
  /\ open_clients' = IF ok THEN open_clients ELSE open_clients \ {ClientOf(hub.connects, i)}
  /\ UNCHANGED <<sessions, _tool_to_server, hubDone, exclude_list>>
  /\ UNCHANGED otherThanHub

(* the notifications/initialized request of one URL is sent, or fails *)
InitializedSent(i, ok) ==
  /\ hub.pc = "connect" /\ i \in 1..Len(hub.urls) /\ hub.stage[i] = "notify"
  /\ hub' = [hub EXCEPT !.stage[i] = IF ok THEN "tools_list" ELSE "failed"]
  /\ open_clients' = IF ok THEN open_clients ELSE open_clients \ {ClientOf(hub.connects, i)}
  /\ UNCHANGED <<sessions, _tool_to_server, hubDone, exclude_list>>
  /\ UNCHANGED otherThanHub

(* the tools/list request of one URL is answered: lines 185-203 *)
ToolsListed(i, reply) ==
  LET
      (* tools_data.get("result", {}).get("tools", []) *)
      EntriesOf(reply0) == IF reply0.status = "result" THEN reply0.tools ELSE <<>>
      (* the for loop of lines 189-197 over the entries of the reply: tool["name"] *)
      (* raises KeyError at an entry without a name, after the entries before it   *)
      (* have been written to the routing map                                      *)
      RECURSIVE Enumerate(_, _, _, _)
      Enumerate(entries, server_url, tools, map) ==
        LET
            (* self._tool_to_server[name] = server_url *)
            SetRoute(map0, name, server_url0) ==
              {r \in map0 : r.name # name} \cup {[name |-> name, url |-> server_url0]}
        IN
          IF entries = <<>> THEN [raised |-> FALSE, tools |-> tools, map |-> map]
          ELSE IF ~ Head(entries).named THEN [raised |-> TRUE, tools |-> tools, map |-> map]
          ELSE Enumerate(Tail(entries), server_url, Append(tools, Head(entries).name),
                         SetRoute(map, Head(entries).name, server_url))
      (* self.sessions[server_url] = session *)
      SetSession(ss, session) ==
        IF \E i0 \in 1..Len(ss) : ss[i0].server_url = session.server_url
        THEN [i0 \in 1..Len(ss) |->
                IF ss[i0].server_url = session.server_url THEN session ELSE ss[i0]]
        ELSE Append(ss, session)
      MCPSession(server_url, client, tools) ==
        [server_url |-> server_url, client |-> client, tools |-> tools]
  IN
    /\ hub.pc = "connect" /\ i \in 1..Len(hub.urls) /\ hub.stage[i] = "tools_list"
    /\ reply \in ToolsReplies(hub.urls[i])
    /\ LET url == hub.urls[i]
           client == ClientOf(hub.connects, i)
           e == Enumerate(EntriesOf(reply), url, <<>>, _tool_to_server)
           got == IF reply.status = "result" /\ e.raised THEN "malformed" ELSE reply.status
       IN IF reply.status = "fails"
          THEN /\ hub' = [hub EXCEPT !.stage[i] = "failed", !.got[i] = got]
               /\ open_clients' = open_clients \ {client}
               /\ UNCHANGED <<sessions, _tool_to_server>>
          ELSE /\ _tool_to_server' = e.map
               /\ sessions' = IF e.raised THEN sessions
                              ELSE SetSession(sessions, MCPSession(url, client, e.tools))
               /\ open_clients' = IF e.raised THEN open_clients \ {client} ELSE open_clients
               /\ hub' = [hub EXCEPT !.stage[i] = IF e.raised THEN "failed" ELSE "ok",
                                     !.got[i] = got]
    /\ UNCHANGED <<hubDone, exclude_list>>
    /\ UNCHANGED otherThanHub

(* gather has every result: connect logs them and returns *)
ConnectReturns ==
  LET
      (* asyncio.gather(..., return_exceptions=True): the exception of a URL is a *)
      (* result, it does not leave gather                                         *)
      return_exceptions == TRUE
  IN
    /\ hub.pc = "connect"
    /\ \A i \in 1..Len(hub.urls) : hub.stage[i] \in {"ok", "failed"}
    /\ hubDone' = [hubDone EXCEPT
                     !.op = "connect", !.urls = hub.urls, !.got = hub.got,
                     !.raised = (~ return_exceptions
                                 /\ \E i \in 1..Len(hub.urls) : hub.stage[i] = "failed")]
    /\ hub' = HubIdle(hub.connects)
    /\ UNCHANGED <<sessions, _tool_to_server, exclude_list, open_clients>>
    /\ UNCHANGED otherThanHub

(* MCPClientHub.call_tool, with the answer of the server to tools/call *)
CallTool(name, reply) ==
  LET
      (* MCPClientHub.call_tool *)
      call_tool(name0, reply0) ==
        IF ~ Routed(_tool_to_server, name0) THEN CallResult(TRUE, "Tool not found")
        ELSE IF RouteOf(_tool_to_server, name0) \notin SessionUrls
             THEN CallResult(TRUE, "Not connected to server for tool")
        ELSE IF reply0 = "fails" THEN CallResult(TRUE, "str(e)")
        ELSE IF ReplyIsError(reply0) THEN CallResult(TRUE, "result[error]")
        ELSE IF reply0 = "result" THEN CallResult(FALSE, "result[result]")
        ELSE CallResult(FALSE, "{}")
  IN
    /\ hub.pc = "idle"
    /\ hubDone' = [NoHubDone EXCEPT !.op = "call_tool", !.name = name, !.reply = reply,
                                    !.result = call_tool(name, reply)]
    /\ UNCHANGED <<sessions, _tool_to_server, hub, exclude_list, open_clients>>
    /\ UNCHANGED otherThanHub

(* MCPClientHub.to_anthropic_format, called with the list object `l` *)
ToAnthropicFormat(l) ==
  LET
      (* the caller's list after to_anthropic_format: the method works on a copy *)
      CallerListAfter(exclude_patterns) == exclude_patterns
  IN
    /\ hub.pc = "idle"
    /\ hubDone' = [NoHubDone EXCEPT !.op = "format", !.exclude = l,
                                    !.tools = FormatTools(list_tools, l)]
    /\ exclude_list' = CallerListAfter(l)
    /\ UNCHANGED <<sessions, _tool_to_server, hub, open_clients>>
    /\ UNCHANGED otherThanHub

(* MCPClientHub.close is called: up to the first await of the loop, or to *)
(* the end when there is no session                                       *)
Close ==
  /\ hub.pc = "idle"
  /\ IF sessions = <<>>
     THEN /\ _tool_to_server' = {}
          /\ hubDone' = [NoHubDone EXCEPT !.op = "close"]
          /\ UNCHANGED <<sessions, hub>>
     ELSE /\ hub' = [HubIdle(hub.connects) EXCEPT
                       !.pc = "close", !.at = 1, !.step = "delete", !.before = sessions]
          /\ hubDone' = NoHubDone
          /\ UNCHANGED <<sessions, _tool_to_server>>
  /\ UNCHANGED <<exclude_list, open_clients>>
  /\ UNCHANGED otherThanHub

(* the DELETE request of the session at hand is over; an exception of it is *)
(* swallowed                                                                *)
TerminationNotice(ok) ==
  /\ hub.pc = "close" /\ hub.step = "delete"
  /\ hub' = [hub EXCEPT !.step = "aclose",
                        !.noticed = @ \cup {sessions[hub.at].server_url}]
  /\ UNCHANGED <<sessions, _tool_to_server, hubDone, exclude_list, open_clients>>
  /\ UNCHANGED otherThanHub

(* session.client.aclose() of the session at hand is over: the client is   *)
(* closed; an exception of it leaves close()                               *)
ClientReleased(ok) ==
  /\ hub.pc = "close" /\ hub.step = "aclose"
  /\ LET released == hub.released \cup {sessions[hub.at].server_url}
         done == [NoHubDone EXCEPT !.op = "close", !.before = hub.before,
                                   !.noticed = hub.noticed, !.released = released]
     IN IF ~ ok
        THEN /\ hubDone' = [done EXCEPT !.raised = TRUE]
             /\ hub' = HubIdle(hub.connects)
             /\ UNCHANGED <<sessions, _tool_to_server>>
        ELSE IF hub.at < Len(sessions)
        THEN /\ hub' = [hub EXCEPT !.at = @ + 1, !.step = "delete", !.released = released]
             /\ UNCHANGED <<sessions, _tool_to_server, hubDone>>
        ELSE /\ sessions' = <<>>
             /\ _tool_to_server' = {}
             /\ hubDone' = done
             /\ hub' = HubIdle(hub.connects)
  /\ open_clients' = open_clients \ {sessions[hub.at].client}
  /\ UNCHANGED exclude_list
  /\ UNCHANGED otherThanHub

NextHub ==
  LET
      (* what the server answers to tools/call *)
      CallReplies == {"result", "error", "empty", "fails"}
      (* the names call_tool is asked for *)
      ToolNames == {EmailSend, CronAdd, CronList, <<"no_", "such">>}
      (* the exclude lists a caller passes; the empty one also stands for None *)
      ExcludeLists == {<<>>, <<<<"list">>>>, <<<<"send">>, <<"x_">>>>}
      (* a server_urls argument that names one server twice *)
      SameUrlTwice == <<"u_email", "u_email">>
  IN
    \/ \E l \in ServerLists \cup {SameUrlTwice} : Connect(l)
    \/ \E i \in 1..2, ok \in BOOLEAN : InitializeDone(i, ok)
    \/ \E i \in 1..2, ok \in BOOLEAN : InitializedSent(i, ok)
    \/ \E i \in 1..2, u \in ServerUrls : \E r \in ToolsReplies(u) : ToolsListed(i, r)
    \/ ConnectReturns
    \/ \E n \in ToolNames, r \in CallReplies : CallTool(n, r)
    \/ \E l \in ExcludeLists : ToAnthropicFormat(l)
    \/ Close
    \/ \E ok \in BOOLEAN : TerminationNotice(ok)
    \/ \E ok \in BOOLEAN : ClientReleased(ok)


(***************************************************************************)
(* Part 5: MCPRegistry (mcp_registry.py).                                  *)
(*                                                                         *)
(* A URL is a sequence of tokens: the words "http", "https", "ftp" and     *)
(* "h", the digit "8", and the characters ":" and "/".  A server name is   *)
(* a word.  Every method of the registry runs without suspension (its      *)
(* awaits are calls of coroutines that never wait).                        *)
(***************************************************************************)
MaxRestarts == 1

UrlHttp == <<"http", ":", "/", "/", "h">>

UrlHttps == <<"https", ":", "/", "/", "h">>

(* urllib.parse.urlsplit: the scheme is what stands before the first ":"   *)
(* when that starts with a letter and holds scheme characters only; the    *)
(* netloc is what follows "//" up to the next "/"                          *)
urlparse(url) ==
  LET (* str.find(c): position of the first c from `from` on, 0 if none *)
      Find(str, c, from) ==
        IF \E i \in from..Len(str) : str[i] = c
        THEN CHOOSE i \in from..Len(str) : str[i] = c /\ \A k \in from..(i - 1) : str[k] # c
        ELSE 0
      IsAlphaToken(tok) == tok \in {"http", "https", "ftp", "h"}
      (* characters a scheme is made of: letters, digits, "+", "-", "." *)
      IsSchemeToken(tok) == tok \in {"http", "https", "ftp", "h", "8"}
      colon == Find(url, ":", 1)
      has_scheme == colon > 1 /\ IsAlphaToken(url[1])
                              /\ \A k \in 1..(colon - 1) : IsSchemeToken(url[k])
      scheme == IF has_scheme THEN SubSeq(url, 1, colon - 1) ELSE <<>>
      rest == IF has_scheme THEN SubSeq(url, colon + 1, Len(url)) ELSE url
      slashes == Len(rest) >= 2 /\ rest[1] = "/" /\ rest[2] = "/"
      delim == Find(rest, "/", 3)
      netloc == IF ~ slashes THEN <<>>
                ELSE IF delim = 0 THEN SubSeq(rest, 3, Len(rest))
                ELSE SubSeq(rest, 3, delim - 1)
  IN [scheme |-> scheme, netloc |-> netloc]

(* validate_url *)
validate_url(url) ==
  /\ url # <<>>
  /\ urlparse(url).scheme \in {<<"http">>, <<"https">>}
  /\ urlparse(url).netloc # <<>>

ServerNames == {"email", "crm"}

(* str.lower() of the part of an environment key after "MCP_SERVER_" *)
Lower(key) == IF key = "EMAIL" THEN "email" ELSE IF key = "CRM" THEN "crm" ELSE key

MCPServerConfig(prefix, name, url) == [id |-> <<prefix, name>>, name |-> name, url |-> url]

(* a declaration of a source: environment key suffix or YAML name, and URL *)
Decl(name, url) == [name |-> name, url |-> url]

HasServer(table, name) == \E i \in 1..Len(table) : table[i].name = name

(* get_server_by_name, for a name that has a row *)
get_server_by_name(table, name) == table[CHOOSE i \in 1..Len(table) : table[i].name = name]

(* MCPRegistry.add_server: ValueError for a URL that does not validate *)
add_server(table, server) ==
  LET
      (* INSERT ... ON CONFLICT(name) DO UPDATE SET url = excluded.url, ... *)
      Upsert(table0, server0) ==
        IF HasServer(table0, server0.name)
        THEN [i \in 1..Len(table0) |->
                IF table0[i].name = server0.name THEN [table0[i] EXCEPT !.url = server0.url]
                ELSE table0[i]]
        ELSE Append(table0, server0)
  IN
    IF ~ validate_url(server.url) THEN [raised |-> TRUE, table |-> table]
    ELSE [raised |-> FALSE, table |-> Upsert(table, server)]

(* MCPRegistry._load_from_env: an exception of add_server leaves the loop *)
RECURSIVE _load_from_env(_, _)
_load_from_env(table, env) ==
  IF env = <<>> THEN [raised |-> FALSE, table |-> table]
  ELSE LET name == Lower(Head(env).name)
           added == add_server(table, MCPServerConfig("env", name, Head(env).url))
       IN IF Head(env).url = <<>> \/ HasServer(table, name)
          THEN _load_from_env(table, Tail(env))
          ELSE IF added.raised THEN added
          ELSE _load_from_env(added.table, Tail(env))

(* MCPRegistry._load_from_config: an invalid URL is skipped *)
RECURSIVE _load_from_config(_, _)
_load_from_config(table, config) ==
  IF config = <<>> THEN [raised |-> FALSE, table |-> table]
  ELSE LET name == Head(config).name
           added == add_server(table, MCPServerConfig("config", name, Head(config).url))
       IN IF ~ validate_url(Head(config).url) \/ HasServer(table, name) \/ added.raised
          THEN _load_from_config(table, Tail(config))
          ELSE _load_from_config(added.table, Tail(config))

initialize_config_first(table, env, config) ==
  _load_from_env(_load_from_config(table, config).table, env)

(* MCPRegistry.initialize, lines 100-102 *)
initialize(table, env, config) ==
  LET loaded == _load_from_env(table, env)
  IN IF loaded.raised THEN loaded ELSE _load_from_config(loaded.table, config)

(* the record of a tool or registry operation that has ended *)
OpDone(op, raised, json, args, before, data) ==
  [op |-> op, raised |-> raised, json |-> json, args |-> args, before |-> before,
   data |-> data]

(* the scheduler and the executors are idle *)
InitOthersIdle ==
  /\ now = 0
  /\ nextTick = 0
  /\ tasks = [id \in TaskIds |-> TaskRow(id)]
  /\ history = <<>>
  /\ jobs = <<>>
  /\ _running_tasks = {}
  /\ _semaphore = max_concurrent
  /\ lastTick = NoRun
  /\ _running = TRUE
  /\ lastPass = NoPass
  /\ InitAgent
  /\ InitTaskIdle

InitHubOnly == InitOthersIdle /\ InitServerIdle(FALSE)

SpecHub == InitHubOnly /\ [][NextHub]_vars

(* init_registry on a new process, or initialize called again: the loaders *)
(* run unless the registry is initialised already                          *)
Initialize(env, config) ==
  LET r == initialize(mcp_servers_table, env, config)
  IN /\ _registry' = TRUE
     /\ IF _initialized
        THEN /\ UNCHANGED <<mcp_servers_table, _initialized>>
             /\ toolDone' = OpDone("initialize", FALSE, "already", Decl(env, config),
                                   mcp_servers_table, <<>>)
        ELSE /\ mcp_servers_table' = r.table
             /\ _initialized' = ~ r.raised
             /\ toolDone' = OpDone("initialize", r.raised, "loaded", Decl(env, config),
                                   mcp_servers_table, <<>>)
     /\ UNCHANGED <<restarts, tasks_table, tasks_cache>>
     /\ UNCHANGED otherThanTool

(* MCPRegistry.add_server called on the registry *)
AddServer(name, url) ==
  LET r == add_server(mcp_servers_table, MCPServerConfig("manual", name, url))
  IN /\ _registry
     /\ mcp_servers_table' = r.table
     /\ toolDone' = OpDone("add_server", r.raised, "none", Decl(name, url),
                           mcp_servers_table, <<>>)
     /\ UNCHANGED <<_registry, _initialized, restarts, tasks_table, tasks_cache>>
     /\ UNCHANGED otherThanTool

(* MCPRegistry.remove_server called on the registry *)
RemoveServer(name) ==
  LET
      (* MCPRegistry.remove_server *)
      remove_server(table, name0) ==
        LET Other(row) == row.name # name0 IN SelectSeq(table, Other)
  IN
    /\ _registry
    /\ mcp_servers_table' = remove_server(mcp_servers_table, name)
    /\ toolDone' = OpDone("remove_server", FALSE, "none", Decl(name, <<>>),
                          mcp_servers_table, <<>>)
    /\ UNCHANGED <<_registry, _initialized, restarts, tasks_table, tasks_cache>>
    /\ UNCHANGED otherThanTool

(* the server process ends and a new one starts: the tables stay, the      *)
(* module globals are new                                                  *)
Restart ==
  /\ restarts < MaxRestarts
  /\ restarts' = restarts + 1
  /\ _registry' = FALSE
  /\ _initialized' = FALSE
  /\ tasks_cache' = <<>>
  /\ toolDone' = NoToolDone
  /\ UNCHANGED <<mcp_servers_table, tasks_table>>
  /\ UNCHANGED otherThanTool

NextRegistry ==
  LET
      (* the servers of the YAML file, none when there is no file *)
      ConfigFiles ==
        {<<>>, <<Decl("email", UrlHttps)>>, <<Decl("email", <<"ftp", ":", "/", "/", "h">>)>>,
         <<Decl("crm", UrlHttps), Decl("email", UrlHttps)>>}
      (* the MCP_SERVER_* variables of the environment *)
      Environments ==
        {<<>>, <<Decl("EMAIL", UrlHttp)>>, <<Decl("EMAIL", <<"h", "/", "h">>)>>,
         <<Decl("CRM", UrlHttp), Decl("EMAIL", <<>>)>>}
      (* the URLs given to the registry; the empty one also stands for None *)
      Urls ==
        LET
            UrlHttpsPort == <<"https", ":", "/", "/", "h", ":", "8", "/", "h">>
        IN
          {<<>>, UrlHttp, UrlHttps, UrlHttpsPort,
           <<"ftp", ":", "/", "/", "h">>,
           <<"h", "/", "h">>,
           <<"/", "/", "h">>,
           <<"http", ":", "/", "h">>,
           <<"http", ":", "/", "/">>,
           <<"http", ":", "/", "/", "/", "h">>,
           <<"http", ":", "/", "/", ":", "8">>}
  IN
    \/ \E env \in Environments, config \in ConfigFiles : Initialize(env, config)
    \/ \E name \in ServerNames, url \in Urls : AddServer(name, url)
    \/ \E name \in ServerNames : RemoveServer(name)
    \/ Restart

SpecRegistry == InitHubOnly /\ [][NextRegistry]_vars

(***************************************************************************)
(* Part 6: the defaults of SubagentExecutor.execute                        *)
(***************************************************************************)
(* an Optional value: None (Unset), or a value that was passed or is set *)
Unset == [some |-> FALSE, val |-> <<>>]

Some(v) == [some |-> TRUE, val |-> v]

fallback_timeout == 300

fallback_max_turns == 10

(* int(text): the value of a decimal literal, ValueError for other texts *)
int(text) ==
  LET DigitValue == [c \in {"0", "1", "2", "3", "4", "5", "6", "7", "8", "9"} |->
                       CASE c = "0" -> 0 [] c = "1" -> 1 [] c = "2" -> 2 [] c = "3" -> 3
                         [] c = "4" -> 4 [] c = "5" -> 5 [] c = "6" -> 6 [] c = "7" -> 7
                         [] c = "8" -> 8 [] c = "9" -> 9]
      RECURSIVE Value(_)
      Value(t) ==
        IF t = <<>> THEN 0
        ELSE 10 * Value(SubSeq(t, 1, Len(t) - 1)) + DigitValue[t[Len(t)]]
  IN IF text # <<>> /\ \A i \in 1..Len(text) : text[i] \in DOMAIN DigitValue
     THEN [raised |-> FALSE, val |-> Value(text)]
     ELSE [raised |-> TRUE, val |-> 0]

(* lines 135-141 of execute and the hand-over to the selected executor *)
ExecuteDefaults(timeout, max_turns, model, env_timeout, env_max_turns, env_model) ==
  LET
      (* os.environ.get(key, fallback) *)
      EnvironGet(value, fallback) == IF value.some THEN value.val ELSE fallback
      (* x or default, for an Optional[int] and for an Optional[str] *)
      OrDefault(x, falsy, default) == IF x.some /\ x.val # falsy THEN x.val ELSE default
      fallback_model == "claude-sonnet-4-20250514"
  IN
    LET raised == \/ env_timeout.some /\ int(env_timeout.val).raised
                  \/ env_max_turns.some /\ int(env_max_turns.val).raised
        default_timeout == IF env_timeout.some THEN int(env_timeout.val).val ELSE fallback_timeout
        default_max_turns == IF env_max_turns.some THEN int(env_max_turns.val).val
                             ELSE fallback_max_turns
        default_model == EnvironGet(env_model, fallback_model)
        args == [timeout |-> timeout, max_turns |-> max_turns, model |-> model,
                 env_timeout |-> env_timeout, env_max_turns |-> env_max_turns,
                 env_model |-> env_model]
        handed == [timeout |-> OrDefault(timeout, 0, default_timeout),
                   max_turns |-> OrDefault(max_turns, 0, default_max_turns),
                   model |-> OrDefault(model, "", default_model)]
    IN /\ toolDone' = OpDone("execute", raised, "none", args, <<>>,
                             IF raised THEN <<>> ELSE handed)
       /\ UNCHANGED <<mcp_servers_table, _registry, _initialized, restarts, tasks_table,
                      tasks_cache>>
       /\ UNCHANGED otherThanTool

NextDefaults ==
  LET (* None for an Optional[int] and for an Optional[str] *)
      NoInt == [some |-> FALSE, val |-> 0]
      NoStr == [some |-> FALSE, val |-> ""]
      (* the explicit arguments of a call *)
      Timeouts == {NoInt, Some(0), Some(5)}
      MaxTurnsArgs == {NoInt, Some(0), Some(3)}
      Models == {NoStr, Some(""), Some("claude-opus")}
      (* SUBAGENT_TIMEOUT, SUBAGENT_MAX_TURNS and CLAUDE_MODEL of the process *)
      EnvNumbers == {Unset, Some(<<"6", "0">>), Some(<<"0">>), Some(<<"x">>)}
      EnvModels == {NoStr, Some(""), Some("claude-haiku")}
  IN \E timeout \in Timeouts, max_turns \in MaxTurnsArgs, model \in Models :
       \E env_timeout \in EnvNumbers, env_max_turns \in EnvNumbers, env_model \in EnvModels :
         ExecuteDefaults(timeout, max_turns, model, env_timeout, env_max_turns, env_model)

SpecDefaults == InitHubOnly /\ [][NextDefaults]_vars

(***************************************************************************)
(* Part 7: the tool operations of server.py                                *)
(*                                                                         *)
(* A text is the sequence of its characters, a run of characters that no   *)
(* rule looks into being one element.  A cron expression is the sequence   *)
(* of its whitespace-separated fields, the empty string having none.       *)
(***************************************************************************)
MaxRuns == 1

(* the clock readings the model tells apart *)
MaxNow == 2

(* croniter(schedule) does not raise *)
croniter(schedule) ==
  LET
      (* croniter: the ranges of the minute, hour, day, month and weekday fields *)
      RANGES == <<[lo |-> 0, hi |-> 59], [lo |-> 0, hi |-> 23], [lo |-> 1, hi |-> 31],
                 [lo |-> 1, hi |-> 12], [lo |-> 0, hi |-> 6]>>
      (* croniter accepts the field at position i *)
      FieldValid(field, i) ==
        \/ field = <<"*">>
        \/ /\ Len(field) > 2
           /\ SubSeq(field, 1, 2) = <<"*", "/">>
           /\ ~ int(SubSeq(field, 3, Len(field))).raised
           /\ int(SubSeq(field, 3, Len(field))).val > 0
        \/ /\ ~ int(field).raised
           /\ int(field).val >= RANGES[i].lo
           /\ int(field).val <= RANGES[i].hi
  IN
    /\ Len(schedule) = Len(RANGES)
    /\ \A i \in 1..Len(schedule) : FieldValid(schedule[i], i)

(* json.loads of the text of a list of str *)
json_loads(text) ==
  LET
      RECURSIVE ReadArray(_, _, _)
      ReadArray(text1, i, acc) ==
        LET
            (* the str that ends at the next quotation mark that is not escaped *)
            RECURSIVE ReadString(_, _, _)
            ReadString(text0, i0, acc0) ==
              IF text0[i0] = "\"" THEN [val |-> acc0, next |-> i0 + 1]
              ELSE IF text0[i0] = "\\" THEN ReadString(text0, i0 + 2, Append(acc0, text0[i0 + 1]))
              ELSE ReadString(text0, i0 + 1, Append(acc0, text0[i0]))
        IN
          IF text1[i] = "]" THEN acc
          ELSE IF text1[i] = "\""
          THEN ReadArray(text1, ReadString(text1, i + 1, <<>>).next,
                         Append(acc, ReadString(text1, i + 1, <<>>).val))
          ELSE ReadArray(text1, i + 1, acc)
  IN
    ReadArray(text, 2, <<>>)

(* `x` is falsy: None, the empty str or the empty list *)
Falsy(x) == ~ x.some \/ x.val = <<>>

(* lines 486-501: the error the validation returns, "none" when it passes *)
ValidationErrorNoCron(args) ==
  IF args.type \notin {"bash", "subagent"} THEN "Type must be 'bash' or 'subagent'"
  ELSE IF args.type = "bash" /\ Falsy(args.command) THEN "Command required for bash type"
  ELSE IF args.type = "subagent" /\ Falsy(args.prompt) THEN "Prompt required for subagent type"
  ELSE "none"

ValidationError(args) ==
  IF args.type \notin {"bash", "subagent"} THEN "Type must be 'bash' or 'subagent'"
  ELSE IF args.type = "bash" /\ Falsy(args.command) THEN "Command required for bash type"
  ELSE IF args.type = "subagent" /\ Falsy(args.prompt) THEN "Prompt required for subagent type"
  ELSE IF ~ Falsy(args.schedule) /\ ~ croniter(args.schedule.val)
  THEN "Invalid cron expression"
  ELSE "none"

HasTask(table, task_id) == \E i \in 1..Len(table) : table[i].id = task_id

TaskOf(table, task_id) == table[CHOOSE i \in 1..Len(table) : table[i].id = task_id]

WithoutTask(table, task_id) ==
  LET Other(row) == row.id # task_id IN SelectSeq(table, Other)

ToolStep(op, raised, json, args, before, data) ==
  /\ toolDone' = OpDone(op, raised, json, args, before, data)
  /\ UNCHANGED <<_initialized, restarts>>
  /\ UNCHANGED <<schedVars, agentVars, hubVars, ctxVars, db_tasks, calls>>

claudecron_add_task(task_id, args, stamp) ==
  LET
      (* the row of the tasks table and the dict of tasks_cache *)
      TaskRecord(task_id0, args0, enabled, mcp_servers, allowed_tools) ==
        [id |-> task_id0, type |-> args0.type, schedule |-> args0.schedule, enabled |-> enabled,
         mcp_servers |-> mcp_servers, allowed_tools |-> allowed_tools,
         created_at |-> stamp, updated_at |-> stamp]
      Resolve(registry, table, list) ==
        LET
            (* lines 505-522: names are resolved through the registry when there is one *)
            ResolveEntry(table0, server) ==
              IF Head(server) \in {"http", "https"} THEN server
              ELSE IF Len(server) = 1 /\ HasServer(table0, server[1])
              THEN get_server_by_name(table0, server[1]).url
              ELSE server
        IN
          IF Falsy(list) THEN <<>>
          ELSE IF registry THEN [i \in 1..Len(list.val) |-> ResolveEntry(table, list.val[i])]
          ELSE list.val
      (* json.dumps(x) if x else None *)
      Serialize(x) ==
        LET
            (* json.dumps of a list of str *)
            json_dumps(list) ==
              LET
                  RECURSIVE DumpItems(_)
                  DumpItems(list0) ==
                    LET
                        (* json.dumps of a str: the quotation mark and the backslash are escaped *)
                        RECURSIVE Escape(_)
                        Escape(str) ==
                          IF str = <<>> THEN <<>>
                          ELSE (IF Head(str) \in {"\"", "\\"} THEN <<"\\", Head(str)>> ELSE <<Head(str)>>)
                               \o Escape(Tail(str))
                    IN
                      IF list0 = <<>> THEN <<>>
                      ELSE <<"\"">> \o Escape(Head(list0)) \o <<"\"">>
                           \o (IF Tail(list0) = <<>> THEN <<>> ELSE <<", ">>) \o DumpItems(Tail(list0))
              IN
                <<"[">> \o DumpItems(list) \o <<"]">>
        IN
          IF Falsy(x) THEN Unset ELSE Some(json_dumps(x.val))
  IN
    LET resolved_mcp_servers == Resolve(_registry, mcp_servers_table, args.mcp_servers)
        before == [tasks |-> tasks_table, cache |-> tasks_cache]
    IN /\ ~ HasTask(tasks_table, task_id)
       /\ IF ValidationError(args) # "none"
          THEN /\ ToolStep("claudecron_add_task", FALSE, "error", args, before,
                           ValidationError(args))
               /\ UNCHANGED <<tasks_table, tasks_cache>>
          ELSE /\ tasks_table' =
                    Append(tasks_table,
                           TaskRecord(task_id, args, TRUE, Serialize(Some(resolved_mcp_servers)),
                                      Serialize(args.allowed_tools)))
               /\ tasks_cache' =
                    Append(WithoutTask(tasks_cache, task_id),
                           TaskRecord(task_id, args, TRUE, Some(resolved_mcp_servers),
                                      args.allowed_tools))
               /\ ToolStep("claudecron_add_task", FALSE, "success", args, before, task_id)
       /\ UNCHANGED <<mcp_servers_table, _registry, db_history>>

claudecron_list_tasks ==
  LET
      (* lines 637-646: a column is parsed when it is truthy *)
      ParseColumn(column) == IF Falsy(column) THEN column ELSE Some(json_loads(column.val))
      (* ORDER BY created_at DESC *)
      Newest(table) == [i \in 1..Len(table) |-> table[Len(table) + 1 - i]]
  IN
    LET tasks_read == Newest(tasks_table)
        parsed == [i \in 1..Len(tasks_read) |->
                     [tasks_read[i] EXCEPT !.mcp_servers = ParseColumn(@),
                                           !.allowed_tools = ParseColumn(@)]]
    IN /\ ToolStep("claudecron_list_tasks", FALSE, "tasks", <<>>, <<>>, parsed)
       /\ UNCHANGED <<tasks_table, tasks_cache, mcp_servers_table, _registry, db_history>>

(* claudecron_run_task and the execute_task it awaits; `status` is what    *)
(* the execution ends with                                                 *)
claudecron_run_task(task_id, history_id, status) ==
  LET
      (* lines 226-227: json.loads(column or '[]') *)
      LoadColumn(column) == json_loads(IF Falsy(column) THEN <<"[", "]">> ELSE column.val)
  IN
    IF ~ HasTask(tasks_table, task_id)
    THEN /\ ToolStep("claudecron_run_task", FALSE, "error", task_id, <<>>, <<>>)
         /\ UNCHANGED <<tasks_table, tasks_cache, mcp_servers_table, _registry, db_history>>
    ELSE LET task == TaskOf(tasks_table, task_id)
             read == IF task.type = "subagent"
                     THEN [some |-> TRUE, id |-> task_id,
                           mcp_servers |-> LoadColumn(task.mcp_servers),
                           allowed_tools |-> LoadColumn(task.allowed_tools)]
                     ELSE [some |-> FALSE, id |-> task_id, mcp_servers |-> <<>>,
                           allowed_tools |-> <<>>]
         IN /\ Len(db_history) < MaxRuns
            /\ db_history' = Append(db_history, [id |-> history_id, task_id |-> task_id,
                                                 status |-> status])
            /\ ToolStep("claudecron_run_task", FALSE, "result", task_id, <<>>, read)
            /\ UNCHANGED <<tasks_table, tasks_cache, mcp_servers_table, _registry>>

(* claudecron_delete_task has no await: it runs between two steps of the  *)
(* executions in progress, whose calls are recorded in `data`.  The task  *)
(* is a row of the tasks table in either of its two readings.             *)
claudecron_delete_task(task_id) ==
  LET Kept(h) == h.task_id # task_id
      stored == task_id \in DOMAIN db_tasks /\ db_tasks[task_id].exists
      executing == {i \in DOMAIN calls : /\ calls[i].task_id = task_id
                                         /\ calls[i].found /\ ~ calls[i].finalized}
  IN /\ IF ~ (HasTask(tasks_table, task_id) \/ stored)
        THEN /\ toolDone' = OpDone("claudecron_delete_task", FALSE, "error", task_id, <<>>, {})
             /\ UNCHANGED <<tasks_table, tasks_cache, db_history, db_tasks>>
        ELSE /\ db_history' = SelectSeq(db_history, Kept)
             /\ tasks_table' = WithoutTask(tasks_table, task_id)
             /\ db_tasks' = [id \in DOMAIN db_tasks |->
                               IF id = task_id THEN NoRow ELSE db_tasks[id]]
             /\ tasks_cache' = WithoutTask(tasks_cache, task_id)
             /\ toolDone' = OpDone("claudecron_delete_task", FALSE, "success", task_id, <<>>,
                                   executing)
     /\ UNCHANGED <<mcp_servers_table, _registry, _initialized, restarts>>
     /\ UNCHANGED <<schedVars, agentVars, hubVars, ctxVars, calls>>

(* the entries of `table` with the one of task_id given the value `enabled` *)
SetEnabledFlipped(table, task_id, enabled) ==
  [i \in 1..Len(table) |->
     IF table[i].id = task_id THEN [table[i] EXCEPT !.enabled = ~ @] ELSE table[i]]

SetEnabled(table, task_id, enabled) ==
  [i \in 1..Len(table) |->
     IF table[i].id = task_id THEN [table[i] EXCEPT !.enabled = enabled] ELSE table[i]]

(* `stamp` is datetime.now(UTC) at line 766 *)
claudecron_toggle_task(task_id, enabled, stamp) ==
  LET
      (* UPDATE tasks SET enabled = ?, updated_at = ? WHERE id = ? *)
      Update(table) ==
        [i \in 1..Len(table) |->
           IF table[i].id = task_id THEN [table[i] EXCEPT !.updated_at = stamp] ELSE table[i]]
      before == [tasks |-> tasks_table, cache |-> tasks_cache]
  IN
    IF ~ HasTask(tasks_table, task_id)
    THEN /\ ToolStep("claudecron_toggle_task", FALSE, "error", task_id, before, enabled)
         /\ UNCHANGED <<tasks_table, tasks_cache, mcp_servers_table, _registry, db_history>>
    ELSE /\ tasks_table' = Update(SetEnabled(tasks_table, task_id, enabled))
         /\ tasks_cache' = SetEnabled(tasks_cache, task_id, enabled)
         /\ ToolStep("claudecron_toggle_task", FALSE, "success", task_id, before, enabled)
         /\ UNCHANGED <<mcp_servers_table, _registry, db_history>>

(* claudecron_get_task_result(task_id=...), the empty str being falsy as  *)
(* None is                                                                 *)
claudecron_get_task_result(task_id) ==
  LET Mine(h) == task_id # "" /\ h.task_id = task_id
      found == SelectSeq(db_history, Mine)
  IN /\ IF found = <<>>
        THEN ToolStep("claudecron_get_task_result", FALSE, "error", task_id, <<>>, <<>>)
        ELSE ToolStep("claudecron_get_task_result", FALSE, "result", task_id, <<>>,
                      found[Len(found)])
     /\ UNCHANGED <<tasks_table, tasks_cache, mcp_servers_table, _registry, db_history>>

claudecron_list_mcp_servers ==
  /\ IF ~ _registry
     THEN ToolStep("claudecron_list_mcp_servers", FALSE, "error", <<>>, <<>>, <<>>)
     ELSE ToolStep("claudecron_list_mcp_servers", FALSE, "servers", <<>>, <<>>,
                   mcp_servers_table)
  /\ UNCHANGED <<tasks_table, tasks_cache, mcp_servers_table, _registry, db_history>>

claudecron_add_mcp_server(name, url) ==
  LET added == add_server(mcp_servers_table, MCPServerConfig("manual", name, url))
  IN /\ IF ~ _registry
        THEN /\ ToolStep("claudecron_add_mcp_server", FALSE, "error", Decl(name, url),
                         <<>>, <<>>)
             /\ UNCHANGED mcp_servers_table
        ELSE /\ mcp_servers_table' = added.table
             /\ ToolStep("claudecron_add_mcp_server", added.raised,
                         IF added.raised THEN "none" ELSE "success", Decl(name, url),
                         <<>>, <<>>)
     /\ UNCHANGED <<tasks_table, tasks_cache, _registry, db_history>>

NextTools ==
  LET (* the clock stands still here: the times of the rows are told apart in SpecToggle *)
      Clock == {1}
      (* the ids uuid4 can give a task, and an id no task has *)
      TaskUuids == {"t1", "t2"}
      TaskIdArgs == TaskUuids \cup {"gone"}
      (* the URLs claudecron_add_mcp_server is called with *)
      ToolUrls == {UrlHttp, <<"ftp", ":", "/", "/", "h">>, <<"http", ":", "/", "/", ":", "8">>}
      EveryMinute == <<<<"*">>, <<"*">>, <<"*">>, <<"*">>, <<"*">>>>
      EverySecondMinute == <<<<"*", "/", "2">>, <<"*">>, <<"*">>, <<"*">>, <<"*">>>>
      (* "invalid", "* * *", "60 * * * *" and "0 0 0 * *" *)
      BadSchedules ==
        {<<<<"i", "n", "v", "a", "l", "i", "d">>>>, <<<<"*">>, <<"*">>, <<"*">>>>,
         <<<<"6", "0">>, <<"*">>, <<"*">>, <<"*">>, <<"*">>>>,
         <<<<"0">>, <<"0">>, <<"0">>, <<"*">>, <<"*">>>>}
      (* the entries of a list of tool servers or of allowed tools *)
      NameEntry == <<"email">>
      ToolEntry == <<"mcp__email__send">>
      QuotedEntry == <<"a", "\"", "b", "\\">>
      (* the arguments of claudecron_add_task *)
      AddTaskArgs(type, command, prompt, schedule, mcp_servers, allowed_tools) ==
        [type |-> type, command |-> command, prompt |-> prompt, schedule |-> schedule,
         mcp_servers |-> mcp_servers, allowed_tools |-> allowed_tools]
      TaskArgs ==
        {AddTaskArgs("subagent", Unset, Some(<<"p">>), Unset, Unset, Unset),
         AddTaskArgs("subagent", Unset, Some(<<"p">>), Unset, Some(<<>>), Some(<<>>)),
         AddTaskArgs("subagent", Unset, Some(<<"p">>), Unset, Some(<<NameEntry>>),
                     Some(<<ToolEntry, QuotedEntry>>)),
         AddTaskArgs("subagent", Unset, Some(<<"p">>), Some(EveryMinute), Some(<<UrlHttp>>),
                     Unset),
         AddTaskArgs("bash", Some(<<"ls">>), Unset, Some(EverySecondMinute), Unset, Unset),
         AddTaskArgs("bash", Some(<<"ls">>), Unset, Some(<<>>), Unset, Unset),
         AddTaskArgs("python", Some(<<"ls">>), Some(<<"p">>), Unset, Unset, Unset),
         AddTaskArgs("bash", Unset, Some(<<"p">>), Unset, Unset, Unset),
         AddTaskArgs("bash", Some(<<>>), Unset, Some(EveryMinute), Unset, Unset),
         AddTaskArgs("subagent", Some(<<"ls">>), Unset, Unset, Some(<<NameEntry>>), Unset),
         AddTaskArgs("subagent", Unset, Some(<<>>), Unset, Unset, Some(<<ToolEntry>>))}
        \cup {AddTaskArgs("bash", Some(<<"ls">>), Unset, Some(bad), Unset, Unset) :
                bad \in BadSchedules}
        \cup {AddTaskArgs("subagent", Unset, Some(<<"p">>), Some(bad), Some(<<NameEntry>>),
                          Some(<<ToolEntry>>)) : bad \in {<<<<"*">>, <<"*">>, <<"*">>>>}}
  IN
    \/ \E task_id \in TaskUuids, args \in TaskArgs, stamp \in Clock :
         claudecron_add_task(task_id, args, stamp)
    \/ claudecron_list_tasks
    \/ \E task_id \in TaskIdArgs, status \in {"success", "failed"} :
         claudecron_run_task(task_id, Len(db_history) + 1, status)
    \/ \E task_id \in TaskIdArgs : claudecron_delete_task(task_id)
    \/ \E task_id \in TaskIdArgs, enabled \in BOOLEAN, stamp \in Clock :
         claudecron_toggle_task(task_id, enabled, stamp)
    \/ \E task_id \in TaskIdArgs \cup {""} : claudecron_get_task_result(task_id)
    \/ claudecron_list_mcp_servers
    \/ \E url \in ToolUrls : claudecron_add_mcp_server("email", url)

(* the server has started, with or without a registry *)
InitTools == InitOthersIdle /\ \E registry \in BOOLEAN : InitServerIdle(registry)

SpecTools == InitTools /\ [][NextTools]_vars

(* executions of tasks, and tasks deleted while they run or before they start *)
NextDelete ==
  \/ \E id \in StoreIds : CallExecuteTask(id, FALSE, NoRegistry)
  \/ \E i \in DOMAIN calls : BashSpawned(i)
  \/ \E i \in DOMAIN calls : BranchRaises(i, <<"boom">>)
  \/ \E i \in DOMAIN calls, returncode \in {0, 1} : BashExited(i, returncode, <<104>>, <<>>)
  \/ \E i \in DOMAIN calls : BashTimeout(i)
  \/ \E i \in DOMAIN calls : CliNotStarted(i, ErrCliNotFound)
  \/ \E i \in DOMAIN calls, outcome \in {"sent", "failed"} : NotifyDone(i, outcome)
  \/ \E id \in StoreIds : claudecron_delete_task(id)

SpecDelete == InitTaskOnly /\ [][NextDelete]_vars

(* The asyncio task that runs execute_task is cancelled while the call     *)
(* awaits the child process, the subagent or the notification.             *)
(* CancelledError is not an Exception: neither except clause of lines      *)
(* 255-261 runs, and the statements that follow the try are not reached.   *)
Cancelled(i) ==
  /\ i \in DOMAIN calls
  /\ calls[i].pc \in {"bash_spawn", "bash_wait", "mcp_wait", "cli_spawn", "cli_wait", "notify"}
  /\ calls' = [calls EXCEPT ![i].pc = "cancelled", ![i].event = "cancelled"]
  /\ UNCHANGED <<db_tasks, db_history>>
  /\ UNCHANGED otherThanTask

(* executions of tasks that run to their end or are cancelled on the way *)
NextCancel ==
  LET
      (* subagent_mcp.py, lines 151-333 *)
      Done == SubagentResult(TRUE, <<"done">>, <<>>, 1, None)
  IN
    \/ \E id \in StoreIds, w \in BOOLEAN : CallExecuteTask(id, w, NoRegistry)
    \/ \E i \in DOMAIN calls : BashSpawned(i)
    \/ \E i \in DOMAIN calls : BranchRaises(i, <<"boom">>)
    \/ \E i \in DOMAIN calls, returncode \in {0, 1} : BashExited(i, returncode, <<104>>, <<>>)
    \/ \E i \in DOMAIN calls : BashTimeout(i)
    \/ \E i \in DOMAIN calls : McpReturned(i, Done)
    \/ \E i \in DOMAIN calls : CliNotStarted(i, ErrCliNotFound)
    \/ \E i \in DOMAIN calls : CliSpawned(i)
    \/ \E i \in DOMAIN calls, returncode \in {0, 1} : CliExited(i, returncode, <<104>>, <<>>)
    \/ \E i \in DOMAIN calls : CliTimeout(i)
    \/ \E i \in DOMAIN calls, outcome \in {"sent", "failed"} : NotifyDone(i, outcome)
    \/ \E i \in DOMAIN calls : Cancelled(i)

SpecCancel == InitTaskOnly /\ [][NextCancel]_vars

(***************************************************************************)
(* Part 8: the recursion guard under concurrent executions                 *)
(*                                                                         *)
(* Each asyncio task runs a chain of execute calls, a nested call being    *)
(* awaited inside a tool call of its caller.  _subagent_depth is read and  *)
(* written in the context of the running task.                             *)
(***************************************************************************)
(* execute from its entry to its first await: check_recursion_depth *)
EnterExecute(task) ==
  LET current == contexts[ContextOf(task)]
      chain == chains[task]
  IN /\ Len(chain.depths) < MaxChain
     /\ IF RecursionLimitExceeded(current)
        THEN (* `depth` stays 0: the finally clause leaves the counter alone *)
             /\ chains' = [chains EXCEPT ![task].last = "recursion",
                                         ![task].nesting = Len(chain.depths)]
             /\ UNCHANGED contexts
        ELSE /\ contexts' = [contexts EXCEPT ![ContextOf(task)] = current + 1]
             /\ chains' = [chains EXCEPT ![task].depths = Append(@, current + 1),
                                         ![task].last = "none"]
     /\ UNCHANGED <<schedVars, agentVars, taskVars, hubVars, toolVars>>

(* the finally clause of the innermost execute of the task, lines 335-338 *)
LeaveExecute(task) ==
  LET chain == chains[task]
      depth == chain.depths[Len(chain.depths)]
  IN /\ chain.depths # <<>>
     /\ contexts' = IF depth > 0
                    THEN [contexts EXCEPT ![ContextOf(task)] = reset_recursion_depth(depth)]
                    ELSE contexts
     /\ chains' = [chains EXCEPT ![task].depths = SubSeq(@, 1, Len(@) - 1),
                                 ![task].last = "returned"]
     /\ UNCHANGED <<schedVars, agentVars, taskVars, hubVars, toolVars>>

NextContext ==
  \/ \E task \in AsyncTasks : EnterExecute(task)
  \/ \E task \in AsyncTasks : LeaveExecute(task)

SpecContext == InitAgentOnly /\ [][NextContext]_vars

(* the operations on stored tasks, under a clock that advances *)
NextToggle ==
  LET (* the readings of the clock: it does not run backwards *)
      Latest(table) == SetMax({0} \cup {table[i].updated_at : i \in 1..Len(table)})
      Clock == {t \in 1..MaxNow : t >= Latest(tasks_table)}
      TaskUuids == {"t1", "t2"}
      TaskIdArgs == TaskUuids \cup {"gone"}
      TaskArgs ==
        {[type |-> "subagent", command |-> Unset, prompt |-> Some(<<"p">>),
          schedule |-> Some(<<<<"*">>, <<"*">>, <<"*">>, <<"*">>, <<"*">>>>),
          mcp_servers |-> Some(<<<<"email">>>>), allowed_tools |-> Unset],
         [type |-> "bash", command |-> Some(<<"ls">>), prompt |-> Unset, schedule |-> Unset,
          mcp_servers |-> Unset, allowed_tools |-> Unset]}
  IN
    \/ \E task_id \in TaskUuids, args \in TaskArgs, stamp \in Clock :
         claudecron_add_task(task_id, args, stamp)
    \/ claudecron_list_tasks
    \/ \E task_id \in TaskIdArgs : claudecron_delete_task(task_id)
    \/ \E task_id \in TaskIdArgs, enabled \in BOOLEAN, stamp \in Clock :
         claudecron_toggle_task(task_id, enabled, stamp)

SpecToggle == InitTools /\ [][NextToggle]_vars

(***************************************************************************)
(* Claims about the scheduler                                              *)
(***************************************************************************)
SchedJobsOf(t) == {i \in DOMAIN jobs : jobs[i].src = "sched" /\ jobs[i].task_id = t}

PendingOf(t) == {i \in SchedJobsOf(t) : jobs[i].pc \in {"waiting", "running"}}

(* C1: an enabled task with a schedule and no execution record has been    *)
(* dispatched exactly once as soon as a tick has run at or after its next  *)
(* cron-matching instant (the tasks exist from instant 0).                 *)
C1_FirstTickDispatchesOnce ==
  \A t \in SelectedTasks :
    (_get_last_run(t) = NoRun /\ lastTick >= CronNext(tasks[t].schedule, 0))
      => Cardinality(SchedJobsOf(t)) = 1

(* C2: no two scheduler dispatches of one task are for the same due slot. *)
C2_OneDispatchPerSlot ==
  \A t \in TaskIds : \A i, j \in SchedJobsOf(t) :
    i # j => jobs[i].slot # jobs[j].slot

(* C3: at no time are two scheduler-launched executions of the same task  *)
(* pending (waiting for a permit) or in progress together.                *)
C3_NoReentry ==
  \A t \in TaskIds : Cardinality(PendingOf(t)) <= 1

(* C4: the id of every scheduler-launched execution that is in progress   *)
(* is in the running-set.                                                 *)
C4_RunningSetCoversLifetime ==
  \A i \in SchedRunning : jobs[i].task_id \in _running_tasks

(* C5: at most max_concurrent scheduler-launched executions are in        *)
(* progress, the running-set holds at most max_concurrent ids, and every  *)
(* execution in progress holds one of the max_concurrent permits.         *)
C5_ConcurrencyCap ==
  /\ Cardinality(SchedRunning) <= max_concurrent
  /\ Cardinality(_running_tasks) <= max_concurrent
  /\ _semaphore = max_concurrent - Cardinality(SchedRunning)

C5_Witness ==
  /\ Cardinality(SchedRunning) = max_concurrent
  /\ Waiting # {}

C19_StopLeavesNothing ==
  ~_running => \A t \in TaskIds : PendingOf(t) = {}

(***************************************************************************)
(* Claims about SubagentExecutorMCP.execute                                *)
(***************************************************************************)
Returned == lastResult.returned

(* the call passed the recursion guard *)
PassedGuard(r) == r.result.error # ErrRecursion

LogTools(log) == [i \in 1..Len(log) |-> log[i].tool]

(* C6: in a nested chain the first MAX_SUBAGENT_DEPTH invocations pass the *)
(* recursion guard, the next one returns success=False with a recursion    *)
(* error, and once every invocation of the chain has exited the depth      *)
(* counter is 0 again.                                                     *)
C6_NestedChainGuard ==
  /\ Len(frames) <= MAX_SUBAGENT_DEPTH
  /\ \A k \in 1..Len(frames) : frames[k].depth = k
  /\ Returned =>
       /\ lastResult.level <= MAX_SUBAGENT_DEPTH => PassedGuard(lastResult)
       /\ lastResult.level = MAX_SUBAGENT_DEPTH + 1 =>
            ~lastResult.result.success /\ lastResult.result.error = ErrRecursion
  /\ frames = <<>> => _subagent_depth = 0

C6_Witness ==
  /\ frames = <<>>
  /\ chainPeak = MAX_SUBAGENT_DEPTH + 1
  /\ Returned /\ lastResult.level = 1
  /\ _subagent_depth = 0

(* C7: 0 <= depth <= MAX_SUBAGENT_DEPTH always, and every execute call     *)
(* returns with the counter at the value it had when the call was made,    *)
(* whatever the exit path.                                                 *)
C7_DepthBoundedAndRestored ==
  /\ _subagent_depth >= 0
  /\ _subagent_depth <= MAX_SUBAGENT_DEPTH
  /\ Returned => lastResult.exit_depth = lastResult.entry_depth

C7_Witness ==
  /\ Returned
  /\ lastResult.result.error = ErrApi
  /\ lastResult.entry_depth = MAX_SUBAGENT_DEPTH - 1
  /\ lastResult.result.tool_calls # <<>>

(* C8: never more than max_turns model requests; and a call whose every    *)
(* model reply carried tool-use blocks (no API error, no exception) sends  *)
(* exactly max_turns requests and returns success=False, turns_used =      *)
(* max_turns, a "max turns" error and a log of every tool call made.       *)
C8_MaxTurnsExceeded ==
  /\ \A k \in 1..Len(frames) : frames[k].requests <= frames[k].max_turns
  /\ Returned => lastResult.requests <= lastResult.max_turns
  /\ (/\ Returned
      /\ lastResult.connected /\ lastResult.tools # <<>>
      /\ lastResult.asked_tools
      /\ lastResult.result.error \notin {ErrApi, ErrException})
     => /\ lastResult.requests = lastResult.max_turns
        /\ ~lastResult.result.success
        /\ lastResult.result.turns_used = lastResult.max_turns
        /\ lastResult.result.error = ErrMaxTurns
        /\ LogTools(lastResult.result.tool_calls) = lastResult.calls

(* C9: when connecting resolves no tool, execute returns success=False     *)
(* with a "no tools" error, turns_used 0 and an empty log, and no model    *)
(* request is ever sent without a tool.                                    *)
C9_NoToolsAvailable ==
  /\ \A k \in 1..Len(frames) : frames[k].requests > 0 => frames[k].tools # <<>>
  /\ (Returned /\ lastResult.connected /\ lastResult.tools = <<>>)
     => /\ ~lastResult.result.success
        /\ lastResult.result.error = ErrNoTools
        /\ lastResult.result.turns_used = 0
        /\ lastResult.result.tool_calls = <<>>
        /\ lastResult.requests = 0

(* every tool the connected server enumerated was excluded *)
C9_Witness ==
  /\ Returned
  /\ lastResult.connected
  /\ lastResult.routing # {}
  /\ lastResult.tools = <<>>
  /\ lastResult.result.error = ErrNoTools

(* C10: execute returns success=True exactly when the model reply it last  *)
(* received contains no tool-use blocks; the output is then that reply's   *)
(* text blocks concatenated, turns_used the number of requests sent and    *)
(* the log the calls of the earlier turns.                                 *)
C10_SuccessIffNoToolUse ==
  Returned =>
    /\ lastResult.result.success
         <=> (lastResult.reply # NoReply /\ tool_use_blocks(lastResult.reply) = <<>>
              /\ lastResult.result.error \notin {ErrApi, ErrException})
    /\ lastResult.result.success =>
         /\ lastResult.result.output = ConcatText(lastResult.reply.content)
         /\ lastResult.result.turns_used = lastResult.requests
         /\ LogTools(lastResult.result.tool_calls) = lastResult.calls

(* C11: on every exit path of execute on which a Hub client was created,   *)
(* close() is called exactly once, and not before the exit: the Hub is     *)
(* open while the call works and closed when the result reaches the caller.*)
C11_HubClosedOnce ==
  /\ \A k \in 1..Len(frames) :
        IF frames[k].pc = "close"
        THEN frames[k].closes = 1 /\ frames[k].hub = "closed"
        ELSE frames[k].closes = 0 /\ frames[k].hub = "open"
  /\ (Returned /\ lastResult.hub # "none") =>
        lastResult.closes = 1 /\ lastResult.hub = "closed"
  /\ (Returned /\ lastResult.hub = "none") => lastResult.result.error = ErrRecursion

(* the exit through an unexpected exception after tool calls were made *)
C11_Witness ==
  /\ Returned
  /\ lastResult.result.error = ErrException
  /\ lastResult.result.tool_calls # <<>>
  /\ lastResult.closes = 1

(***************************************************************************)
(* Claims about execute_task and the subagent dispatcher                   *)
(***************************************************************************)
RowOf(c) == db_history[c.history_id]

RowMatches(row, outcome) ==
  /\ row.finished
  /\ row.status = outcome.status
  /\ row.output = outcome.output
  /\ row.error = outcome.error
  /\ row.turns_used = outcome.turns_used
  /\ row.mode_used = outcome.mode_used

(* C12: when the branch times out or raises, execute_task ends with        *)
(* status=failed and a non-empty error, and a failure reported by the      *)
(* dispatcher ends with status=failed and the dispatcher's error.          *)
C12_FailuresFunnelled ==
  \A i \in DOMAIN calls :
    LET c == calls[i]
    IN /\ (c.finalized /\ c.event \in {"timeout", "exception"}) =>
            c.outcome.status = "failed" /\ Truthy(c.outcome.error)
       /\ (c.finalized /\ c.event = "dispatcher" /\ ~c.dispatcher.success) =>
            c.outcome.status = "failed" /\ c.outcome.error = c.dispatcher.error

C14_MissingTask ==
  \A i \in DOMAIN calls :
    LET c == calls[i]
    IN ~db_tasks[c.task_id].exists =>
         /\ c.pc = "returned"
         /\ c.result.kind = "error"
         /\ c.result.error = Str(<<"Task not found: ", c.task_id>>)
         /\ \A r \in DOMAIN db_history :
              db_history[r].creator # i /\ db_history[r].task_id # c.task_id
         /\ c.sends = 0 /\ c.notify = "none"

(* a call for the missing id, made while a call on an existing task is in  *)
(* progress                                                                *)
C14_Witness ==
  /\ Len(calls) = 2
  /\ calls[1].found /\ calls[1].pc = "bash_wait"
  /\ ~calls[2].found /\ calls[2].task_id = "gone"

(* C15: for a shell task whose command has exited, status=success iff the  *)
(* exit code is 0; the output is the captured stdout; on a non-zero exit   *)
(* the error is non-empty.                                                 *)
C15_ShellSuccessIffExitZero ==
  \A i \in DOMAIN calls :
    LET c == calls[i]
    IN (c.type = "bash" /\ c.event = "exited") =>
         /\ c.outcome.status = "success" <=> c.returncode = 0
         /\ c.returncode # 0 => Truthy(c.outcome.error)
         /\ Utf8Valid(c.stdout) =>
              c.outcome.output = (IF c.stdout # <<>> THEN Str(decode(c.stdout)) ELSE None)

(* C16: when the subprocess of a call has exceeded its timeout, the child  *)
(* has been killed and reaped by the time the call returns.                *)
C16_TimedOutChildReaped ==
  \A i \in DOMAIN calls :
    (calls[i].timed_out /\ calls[i].pc = "returned") => calls[i].proc = "reaped"

SucceededUrls == {hubDone.urls[i] : i \in {j \in 1..Len(hubDone.urls) : hubDone.got[j] = "result"}}

(* C22: connect does not raise because a URL fails; when it has returned,  *)
(* the sessions are those the Hub had plus exactly the URLs whose          *)
(* handshake and tool enumeration succeeded, and every tool of a session   *)
(* is routed to a connected session, whatever happened to the other URLs.  *)
C22_ConnectIsolatesFailures ==
  hubDone.op = "connect" =>
    /\ ~ hubDone.raised
    /\ SessionUrls = hubDone.had \cup SucceededUrls
    /\ \A i \in 1..Len(sessions) : \A j \in 1..Len(sessions[i].tools) :
         /\ Routed(_tool_to_server, sessions[i].tools[j])
         /\ RouteOf(_tool_to_server, sessions[i].tools[j]) \in SessionUrls

(* C23: call_tool raises nothing; its result has the key "error" when the  *)
(* name is not in the routing map, when the owning session is gone, when   *)
(* the request fails and when the server replies with an error; otherwise  *)
(* it is the result payload of the server.                                 *)
C23_CallToolNeverRaises ==
  hubDone.op = "call_tool" =>
    LET name == hubDone.name
        unmapped == ~ Routed(_tool_to_server, name)
        gone == ~ unmapped /\ RouteOf(_tool_to_server, name) \notin SessionUrls
    IN /\ ~ hubDone.raised
       /\ IF unmapped \/ gone \/ hubDone.reply \in {"fails", "error"}
          THEN hubDone.result.has_error
          ELSE /\ ~ hubDone.result.has_error
               /\ hubDone.result.body = IF hubDone.reply = "result" THEN "result[result]"
                                        ELSE "{}"

(* the tool is in the routing map but its session is not there, and the    *)
(* server would have answered                                              *)
C23_Witness ==
  /\ hubDone.op = "call_tool" /\ hubDone.reply = "result"
  /\ Routed(_tool_to_server, hubDone.name)
  /\ RouteOf(_tool_to_server, hubDone.name) \notin SessionUrls
  /\ hubDone.result.has_error

(* C24: to_anthropic_format returns no tool whose name contains            *)
(* "claudecron_" and none that contains a pattern of the caller, returns   *)
(* every other tool of the sessions, and leaves the caller's list as it    *)
(* was.                                                                    *)
C24_FormatExcludesGuarded ==
  hubDone.op = "format" =>
    LET Blocked(name) ==
          \/ PatternIn(RecursionGuardPattern, name)
          \/ \E k \in 1..Len(hubDone.exclude) : PatternIn(hubDone.exclude[k], name)
    IN /\ \A i \in 1..Len(hubDone.tools) : ~ Blocked(hubDone.tools[i])
       /\ \A j \in 1..Len(list_tools) :
            ~ Blocked(list_tools[j]) =>
              \E i \in 1..Len(hubDone.tools) : hubDone.tools[i] = list_tools[j]
       /\ exclude_list = hubDone.exclude

(* the caller passes an unrelated pattern, a "claudecron_" tool is         *)
(* connected and another tool is returned                                  *)
C24_Witness ==
  /\ hubDone.op = "format" /\ hubDone.exclude = <<<<"list">>>>
  /\ \E j \in 1..Len(list_tools) : list_tools[j] = CronAdd
  /\ hubDone.tools = <<EmailSend>>

(* C25: close() attempts the termination notice for, and releases the      *)
(* client of, every session that was connected, also when the notice or    *)
(* the release of some session fails; when it has returned, sessions and   *)
(* the routing map are empty (so that a further close() changes nothing).  *)
C25_CloseReleasesEverySession ==
  hubDone.op = "close" =>
    /\ \A i \in 1..Len(hubDone.before) :
         /\ hubDone.before[i].server_url \in hubDone.noticed
         /\ hubDone.before[i].server_url \in hubDone.released
    /\ ~ hubDone.raised => sessions = <<>> /\ _tool_to_server = {}

(***************************************************************************)
(* Claims about the defaults of SubagentExecutor.execute                   *)
(***************************************************************************)
(* the value the claim names: the explicit argument when one is passed,    *)
(* otherwise the environment value when set, otherwise the fallback        *)
Layered(explicit, env_value, fallback) ==
  IF explicit.some THEN explicit.val ELSE IF env_value.some THEN env_value.val ELSE fallback

EnvInt(value) ==
  IF value.some /\ ~ int(value.val).raised THEN Some(int(value.val).val)
  ELSE [some |-> FALSE, val |-> 0]

(* C21: the timeout, max-turns and model handed to the selected executor   *)
(* are the explicit argument when one is passed, otherwise the environment *)
(* value when set, otherwise 300, 10 and the built-in model id.            *)
C21_ExplicitThenEnvThenFallback ==
  toolDone.op = "execute" /\ ~ toolDone.raised =>
    /\ toolDone.data.timeout =
         Layered(toolDone.args.timeout, EnvInt(toolDone.args.env_timeout), 300)
    /\ toolDone.data.max_turns =
         Layered(toolDone.args.max_turns, EnvInt(toolDone.args.env_max_turns), 10)
    /\ toolDone.data.model =
         Layered(toolDone.args.model, toolDone.args.env_model, "claude-sonnet-4-20250514")

(***************************************************************************)
(* Claims about MCPRegistry                                                *)
(***************************************************************************)
(* SplitResult.hostname: the netloc up to the port *)
HostOf(netloc) ==
  IF \A i \in 1..Len(netloc) : netloc[i] # ":" THEN netloc
  ELSE SubSeq(netloc, 1, (CHOOSE i \in 1..Len(netloc) :
                            netloc[i] = ":" /\ \A k \in 1..(i - 1) : netloc[k] # ":") - 1)

(* an absolute http or https URL with a host *)
AbsoluteHttpUrl(url) ==
  /\ urlparse(url).scheme \in {<<"http">>, <<"https">>}
  /\ HostOf(urlparse(url).netloc) # <<>>

(* the URL a source declares for the server `name`; <<>> when it declares  *)
(* none, a declaration counting when its URL is admitted                   *)
DeclaredUrl(decls, name) ==
  LET Is(d) == Lower(d.name) = name /\ validate_url(d.url)
  IN IF SelectSeq(decls, Is) = <<>> THEN <<>> ELSE Head(SelectSeq(decls, Is)).url

(* the URL the store resolves `name` to, <<>> when it has no such server *)
ResolvedUrl(table, name) ==
  IF HasServer(table, name) THEN get_server_by_name(table, name).url ELSE <<>>

Loaded == toolDone.op = "initialize" /\ toolDone.json = "loaded" /\ ~ toolDone.raised

(* C26 as stated: after initialize a server name resolves to the config    *)
(* the store had, otherwise to the YAML-declared one, otherwise to the     *)
(* environment-declared one; a persisted server is not overwritten.        *)
C26_StoreThenYamlThenEnv ==
  Loaded =>
    \A name \in ServerNames :
      /\ HasServer(toolDone.before, name) =>
           get_server_by_name(mcp_servers_table, name) = get_server_by_name(toolDone.before, name)
      /\ ~ HasServer(toolDone.before, name) =>
           ResolvedUrl(mcp_servers_table, name) =
             IF DeclaredUrl(toolDone.args.url, name) # <<>>
             THEN DeclaredUrl(toolDone.args.url, name)
             ELSE DeclaredUrl(toolDone.args.name, name)

(* C26, amended: after initialize a server name resolves to the config the *)
(* store had, otherwise to the environment-declared one, otherwise to the  *)
(* YAML-declared one; a persisted server is not overwritten.               *)
C26_StoreThenEnvThenYaml ==
  Loaded =>
    \A name \in ServerNames :
      /\ HasServer(toolDone.before, name) =>
           /\ HasServer(mcp_servers_table, name)
           /\ get_server_by_name(mcp_servers_table, name) = get_server_by_name(toolDone.before, name)
      /\ ~ HasServer(toolDone.before, name) =>
           ResolvedUrl(mcp_servers_table, name) =
             IF DeclaredUrl(toolDone.args.name, name) # <<>>
             THEN DeclaredUrl(toolDone.args.name, name)
             ELSE DeclaredUrl(toolDone.args.url, name)

(* the environment and the YAML file declare "email" with different URLs,  *)
(* the store holds "crm" from an earlier run and the YAML file declares it *)
(* too                                                                     *)
C26_Witness ==
  /\ Loaded
  /\ DeclaredUrl(toolDone.args.name, "email") = UrlHttp
  /\ DeclaredUrl(toolDone.args.url, "email") = UrlHttps
  /\ ~ HasServer(toolDone.before, "email")
  /\ HasServer(toolDone.before, "crm")
  /\ DeclaredUrl(toolDone.args.url, "crm") # <<>>
  /\ DeclaredUrl(toolDone.args.url, "crm") # ResolvedUrl(toolDone.before, "crm")

(* C27: add_server raises and persists nothing for a URL that is not an    *)
(* absolute http or https URL with a host, and every row of the            *)
(* mcp_servers table has such a URL.                                       *)
C27_OnlyValidUrlsAdmitted ==
  /\ toolDone.op = "add_server" /\ ~ AbsoluteHttpUrl(toolDone.args.url) =>
       toolDone.raised /\ mcp_servers_table = toolDone.before
  /\ \A i \in 1..Len(mcp_servers_table) : AbsoluteHttpUrl(mcp_servers_table[i].url)

(***************************************************************************)
(* Claims about the tool operations                                        *)
(***************************************************************************)
PublicTools ==
  {"claudecron_add_task", "claudecron_run_task", "claudecron_delete_task",
   "claudecron_toggle_task", "claudecron_get_task_result", "claudecron_add_mcp_server",
   "claudecron_list_mcp_servers"}

(* a call of claudecron_add_task that the claims name as rejected: a type  *)
(* other than bash and subagent, a bash task lacking a command, a subagent *)
(* task lacking a prompt, or a schedule that is not a cron expression      *)
Rejected(args) ==
  \/ args.type \notin {"bash", "subagent"}
  \/ args.type = "bash" /\ (~ args.command.some \/ args.command.val = <<>>)
  \/ args.type = "subagent" /\ (~ args.prompt.some \/ args.prompt.val = <<>>)
  \/ args.schedule.some /\ args.schedule.val # <<>> /\ ~ croniter(args.schedule.val)

(* C28: a public tool operation never raises, and it returns an error      *)
(* result for an unknown task id, for rejected add_task arguments and for  *)
(* an invalid server URL.                                                  *)
C28_ToolsReturnJson ==
  toolDone.op \in PublicTools =>
    /\ ~ toolDone.raised
    /\ toolDone.json \in {"success", "error", "result", "servers"}
    /\ toolDone.op \in {"claudecron_run_task", "claudecron_delete_task",
                        "claudecron_toggle_task", "claudecron_get_task_result"}
          /\ toolDone.args = "gone" =>
         toolDone.json = "error"
    /\ toolDone.op = "claudecron_add_task" /\ Rejected(toolDone.args) =>
         toolDone.json = "error"
    /\ toolDone.op = "claudecron_add_mcp_server" /\ ~ AbsoluteHttpUrl(toolDone.args.url) =>
         toolDone.json = "error"

(* C29: a rejected claudecron_add_task returns an error and leaves the     *)
(* tasks table and tasks_cache as they were.                               *)
C29_RejectedAddTaskWritesNothing ==
  toolDone.op = "claudecron_add_task" /\ Rejected(toolDone.args) =>
    /\ toolDone.json = "error"
    /\ tasks_table = toolDone.before.tasks
    /\ tasks_cache = toolDone.before.cache

(* an invalid cron expression is rejected while a task is stored and cached *)
C29_Witness ==
  /\ toolDone.op = "claudecron_add_task"
  /\ toolDone.args.type = "subagent"
  /\ toolDone.args.schedule.some
  /\ Len(toolDone.args.schedule.val) = 3
  /\ toolDone.json = "error"
  /\ tasks_table # <<>>
  /\ tasks_cache # <<>>

(* the lists claudecron_add_task stored for the task, when it is cached *)
StoredLists(task_id) == TaskOf(tasks_cache, task_id)

(* C30: the tool-server list and the allowed-tools list of a subagent task *)
(* read back by execute_task and by claudecron_list_tasks equal the lists  *)
(* claudecron_add_task stored, the empty list included.                    *)
C30_ListsReadBackEqual ==
  /\ toolDone.op = "claudecron_run_task" /\ toolDone.json = "result" /\ toolDone.data.some
       /\ HasTask(tasks_cache, toolDone.data.id) =>
       /\ Some(toolDone.data.mcp_servers) = StoredLists(toolDone.data.id).mcp_servers
       /\ StoredLists(toolDone.data.id).allowed_tools.some =>
            Some(toolDone.data.allowed_tools) = StoredLists(toolDone.data.id).allowed_tools
  /\ toolDone.op = "claudecron_list_tasks" =>
       \A i \in 1..Len(toolDone.data) :
         toolDone.data[i].type = "subagent" /\ HasTask(tasks_cache, toolDone.data[i].id) =>
           /\ toolDone.data[i].mcp_servers = StoredLists(toolDone.data[i].id).mcp_servers
           /\ StoredLists(toolDone.data[i].id).allowed_tools.some =>
                toolDone.data[i].allowed_tools = StoredLists(toolDone.data[i].id).allowed_tools

(***************************************************************************)
(* Claims about the operations on stored tasks                             *)
(***************************************************************************)
(* a disabling toggle of a task that was already disabled has returned *)
DisabledAgain ==
  /\ toolDone.op = "claudecron_toggle_task"
  /\ toolDone.json = "success"
  /\ toolDone.data = FALSE
  /\ ~ TaskOf(toolDone.before.tasks, toolDone.args).enabled

(* the cache entries of a task *)
CacheEntries(cache, task_id) == LET Mine(e) == e.id = task_id IN SelectSeq(cache, Mine)

(* C31 as stated: claudecron_toggle_task(id, enabled=False) on a task that *)
(* an earlier such call has disabled leaves the stored row and the cache   *)
(* entry as the first call left them.  The second call writes updated_at.  *)
C31_ToggleTwiceSameRow ==
  DisabledAgain =>
    /\ TaskOf(tasks_table, toolDone.args) = TaskOf(toolDone.before.tasks, toolDone.args)
    /\ CacheEntries(tasks_cache, toolDone.args) =
         CacheEntries(toolDone.before.cache, toolDone.args)

(* C31 amended: claudecron_toggle_task(id, enabled=False) twice leaves the *)
(* same stored task as once in every column but updated_at, and the same   *)
(* cache entry.                                                            *)
C31_ToggleTwiceSameButUpdatedAt ==
  DisabledAgain =>
    /\ [TaskOf(tasks_table, toolDone.args) EXCEPT !.updated_at = 0] =
         [TaskOf(toolDone.before.tasks, toolDone.args) EXCEPT !.updated_at = 0]
    /\ CacheEntries(tasks_cache, toolDone.args) =
         CacheEntries(toolDone.before.cache, toolDone.args)

(* the second disabling call came at a later reading of the clock *)
C31_Witness ==
  /\ DisabledAgain
  /\ CacheEntries(tasks_cache, toolDone.args) # <<>>
  /\ TaskOf(tasks_table, toolDone.args).updated_at >
       TaskOf(toolDone.before.tasks, toolDone.args).updated_at

(* C32: once claudecron_delete_task(id) has returned success, no history   *)
(* row of that task exists, then or later: also when an execution of the   *)
(* task was under way at the deletion and ends after it, or was waiting    *)
(* and begins after it.  Rows of the tasks table are only removed here, so *)
(* a task that is not stored and is not "gone" has been deleted.           *)
C32_DeletedTaskLeavesNoRecord ==
  \A id \in StoreIds :
    ~ db_tasks[id].exists => \A r \in DOMAIN db_history : db_history[r].task_id # id

(* the task was deleted under a running execution that has since ended, *)
(* and another execution of it has begun after the deletion             *)
C32_Witness ==
  /\ toolDone.op = "claudecron_delete_task"
  /\ toolDone.json = "success"
  /\ \E i \in toolDone.data : calls[i].finalized /\ calls[i].pc = "returned"
  /\ \E j \in DOMAIN calls : calls[j].task_id = toolDone.args /\ ~ calls[j].found

(***************************************************************************)
(* Claims about the tool dispatch of the agent loop                        *)
(***************************************************************************)
(* the tool_use blocks of the replies in `messages`, in order *)
RECURSIVE RequestedBlocks(_)
RequestedBlocks(messages) ==
  IF messages = <<>> THEN <<>>
  ELSE (IF Head(messages).kind = "reply" THEN tool_use_blocks(Head(messages)) ELSE <<>>)
       \o RequestedBlocks(Tail(messages))

(* the tool results of the user messages in `messages`, in order *)
RECURSIVE ReturnedResults(_)
ReturnedResults(messages) ==
  IF messages = <<>> THEN <<>>
  ELSE (IF Head(messages).kind = "results" THEN Head(messages).content ELSE <<>>)
       \o ReturnedResults(Tail(messages))

(* C33: every tool_use block of a reply leads to one call_tool, one log    *)
(* entry and one tool result with the id of the block, marked is_error     *)
(* when the result has an "error" key or the call raised, all in the order *)
(* of the blocks; the results of a turn are one user message that follows  *)
(* the reply; a model request is sent only when the last message is a user *)
(* message; and after tool results the loop ends only by the turn limit or *)
(* a failure of the model request.                                         *)
C33_OneCallLogAndResultPerBlock ==
  \A k \in 1..Len(frames) :
    LET f == frames[k]
        m == f.messages
        blocks == RequestedBlocks(m)
        results == ReturnedResults(m) \o (IF f.pc = "call_tool" THEN f.tool_results ELSE <<>>)
        log == f.tool_calls_log
    IN /\ \A j \in DOMAIN m :
            (m[j].kind = "reply" /\ tool_use_blocks(m[j]) # <<>>) =>
               IF j < Len(m)
               THEN m[j + 1].kind = "results"
                    /\ Len(m[j + 1].content) = Len(tool_use_blocks(m[j]))
               ELSE f.pc = "call_tool"
       /\ Len(f.calls) = Len(results) + (IF f.pc = "call_tool" THEN 1 ELSE 0)
       /\ Len(f.calls) <= Len(blocks)
       /\ \A i \in DOMAIN f.calls : f.calls[i] = blocks[i].name
       /\ Len(log) = Len(results)
       /\ \A i \in DOMAIN results :
            /\ results[i].tool_use_id = blocks[i].id
            /\ i \in DOMAIN log =>
                 /\ log[i].tool = blocks[i].name
                 /\ results[i].is_error <=> (log[i].result = "error" \/ log[i].error)
       /\ f.pc = "api" => m[Len(m)].role = "user"
       /\ (f.pc = "close" /\ m # <<>> /\ m[Len(m)].kind = "results") =>
            f.result.error \in {ErrMaxTurns, ErrApi, ErrException}

(***************************************************************************)
(* Claims about the recursion guard under concurrency                      *)
(***************************************************************************)
(* C34: each of the tasks that run executions side by side reads its own   *)
(* depth: the value of _subagent_depth it observes is the number of its    *)
(* own active execute calls, whatever the other tasks enter or leave, and  *)
(* it gets a recursion error only when its own chain is at the limit.      *)
C34_DepthPerTask ==
  \A task \in AsyncTasks :
    /\ contexts[ContextOf(task)] = Len(chains[task].depths)
    /\ chains[task].last = "recursion" => chains[task].nesting >= MAX_SUBAGENT_DEPTH

(* one task has been refused at the limit while another is one level deep *)
(* and has entered and left in between                                    *)
C34_Witness ==
  \E a, b \in AsyncTasks :
    /\ a # b
    /\ chains[a].last = "recursion"
    /\ Len(chains[a].depths) = MAX_SUBAGENT_DEPTH
    /\ Len(chains[b].depths) = 1
    /\ chains[b].last = "returned"

(***************************************************************************)
(* Claims about the wait for a permit                                      *)
(***************************************************************************)
(* C35: an execution that a tick has dispatched and that waits for a       *)
(* permit comes to run, given that every running execution ends.           *)
C35_WaitingEventuallyRuns ==
  \A i \in 1..MaxJobs : (i \in Waiting) ~> (i \in DOMAIN jobs /\ jobs[i].pc # "waiting")

(* an execution began after the clock had moved on from the latest tick: *)
(* it had waited while the permits were taken                            *)
C35_Witness ==
  \E i \in DOMAIN jobs :
    /\ jobs[i].src = "sched"
    /\ jobs[i].pc = "running"
    /\ history[jobs[i].hid].started_at > lastTick

(***************************************************************************)
(* Claims about the bulk sources of the registry                           *)
(***************************************************************************)
(* initialize has run its loaders *)
InitializeRan == toolDone.op = "initialize" /\ toolDone.json = "loaded"

(* the names that `decls` declares with an absolute http or https URL *)
WellFormedNames(decls) ==
  {name \in ServerNames :
     \E i \in 1..Len(decls) : Lower(decls[i].name) = name /\ AbsoluteHttpUrl(decls[i].url)}

(* C36: initialize does not raise on an entry of the environment or of the *)
(* YAML file whose URL is invalid or missing: it skips the entry, admits   *)
(* every well-formed entry of both sources and marks the registry          *)
(* initialized.                                                            *)
C36_BulkLoadSkipsInvalid ==
  InitializeRan =>
    /\ ~ toolDone.raised
    /\ _initialized
    /\ \A name \in WellFormedNames(toolDone.args.name) \cup WellFormedNames(toolDone.args.url) :
         HasServer(mcp_servers_table, name)

(***************************************************************************)
(* Claims about the tools an execution can reach                           *)
(***************************************************************************)
(* C37: whatever tool the model asks for, a tool whose name contains       *)
(* "claudecron_" is not invoked on a server: the request for it is         *)
(* answered by an error result of the Hub, so that its log entry never     *)
(* records a result of the server.                                         *)
C37_GuardedToolsNeverInvoked ==
  \A k \in 1..Len(frames) :
    \A i \in DOMAIN frames[k].tool_calls_log :
      LET entry == frames[k].tool_calls_log[i]
      IN PatternIn(RecursionGuardPattern, entry.tool) =>
           ~ entry.success /\ entry.result = "error"

(***************************************************************************)
(* Claims about the tool names of the Hub                                  *)
(***************************************************************************)
(* a tool list as to_anthropic_format returns it for no caller patterns *)
ReturnedNames == FormatTools(list_tools, <<>>)

(* C38: the tool list returned by to_anthropic_format holds no name twice, *)
(* and call_tool on a name of that list is sent to a connected server      *)
(* whose session enumerated the name, whatever the order in which the      *)
(* connections completed, also when two servers declare the same name or   *)
(* an enumeration fails part-way.                                          *)
C38_NamesUniqueAndRoutedToOwner ==
  /\ hubDone.op = "format" =>
       \A i, j \in 1..Len(hubDone.tools) :
         hubDone.tools[i] = hubDone.tools[j] => i = j
  /\ (hubDone.op = "call_tool"
        /\ \E i \in 1..Len(ReturnedNames) : ReturnedNames[i] = hubDone.name) =>
       /\ Routed(_tool_to_server, hubDone.name)
       /\ \E s \in 1..Len(sessions) :
            /\ sessions[s].server_url = RouteOf(_tool_to_server, hubDone.name)
            /\ \E t \in 1..Len(sessions[s].tools) : sessions[s].tools[t] = hubDone.name
       /\ hubDone.result.body \notin {"Tool not found", "Not connected to server for tool"}

(* the clients of the connection attempts that are still under way *)
ClientsInProgress ==
  IF hub.pc # "connect" THEN {}
  ELSE {ClientOf(hub.connects, i) : i \in {k \in 1..Len(hub.urls) : hub.stage[k] \notin {"ok", "failed"}}}

(* C39: every client that connect opens is closed: a client that is open   *)
(* belongs to an attempt that is still under way or to a session, where    *)
(* close() finds it, and when close() is over no client is open, also when *)
(* the URL list names a URL more than once.                                *)
C39_EveryClientClosed ==
  /\ \A c \in open_clients :
       c \in ClientsInProgress \/ \E s \in 1..Len(sessions) : sessions[s].client = c
  /\ hubDone.op = "close" => open_clients = {}

(***************************************************************************)
(* Claims about the end of an execution                                    *)
(***************************************************************************)
(* the execute_task call that inserted the history row `row` *)
CreatorOf(row) == calls[row.creator]

(* C40: a history row has status running only while the execute_task call  *)
(* that created it is in progress: once that call has ended, by a return,  *)
(* an exception or a cancellation, its row is not running and has a finish *)
(* time.                                                                   *)
C40_RunningOnlyWhileInProgress ==
  \A r \in DOMAIN db_history :
    CreatorOf(db_history[r]).pc \in {"returned", "raised", "cancelled"} =>
      db_history[r].status # "running" /\ db_history[r].finished

====
